---- MODULE Spec2Model ----
(***************************************************************************)
(* Storage engine of the ori repository: the metadata (refcount) log      *)
(* (metadatalog.cc, src/unnamed/part_000), the packfile and the packfile   *)
(* manager (packfile.cc, src/unnamed/part_001).                            *)
(*                                                                         *)
(* Files are modelled as sequences of cells.  A cell is one field written  *)
(* by the code ([k |-> kind, v |-> value]); its width in bytes is given by *)
(* Width, so file sizes and offsets are the byte offsets the code          *)
(* computes.                                                               *)
(***************************************************************************)
EXTENDS Integers, Sequences, FiniteSets, TLC

\* ------------------------------------------------------------------------
\* Bounds of the model
\* ------------------------------------------------------------------------
MaxLogCells == 10   \* metadata log: largest log file, in cells (fields)
MaxPackCells == 12  \* packfile: cells written to one pack in one run
MaxBatch == 2       \* packfile: largest number of objects in one transaction
MaxPackId == 4      \* packfile manager: largest pack id allocated in one run
MaxHandles == 2     \* packfile manager: Packfile objects getPackfile makes in one run
MaxEntries == 2     \* FUSE layer: largest number of entries of a TreeDiff
MaxCommits == 1     \* FUSE layer: commits fuseCommit makes in one run

\* ------------------------------------------------------------------------
\* Program constants
\* ------------------------------------------------------------------------
HASH_SIZE == 32     \* ObjectHash::SIZE
I32Max == 2147483647   \* largest bit pattern of a 32-bit word read as signed
INFO_SIZE == 48     \* ObjectInfo::SIZE
ZIP_MINIMUM_SIZE == 2  \* tunable: payloads of at most this size are stored raw
                       \* (set to the scale of the model's payloads)

\* ------------------------------------------------------------------------
\* Helpers for maps with a dynamic domain (std::map)
\* ------------------------------------------------------------------------
EmptyMap == [x \in {} |-> 0]

MapPut(m, k, v) == [x \in DOMAIN m \cup {k} |-> IF x = k THEN v ELSE m[x]]

MapGet(m, k, dflt) == IF k \in DOMAIN m THEN m[k] ELSE dflt

RECURSIVE SetToSortedSeq(_)
SetToSortedSeq(S) ==
    IF S = {} THEN << >>
    ELSE LET m == CHOOSE x \in S : \A y \in S : x <= y
         IN <<m>> \o SetToSortedSeq(S \ {m})

\* uint32_t arithmetic (refcount_t).  A 32-bit word is represented by its bit
\* pattern read as a two's complement number, -2^31 .. 2^31-1: the unsigned
\* value of a negative pattern x is x + 2^32.  U32Add is addition modulo 2^32.
U32Add(a, b) ==
    IF a >= 0 /\ b >= 0 /\ a > I32Max - b
    THEN (a - I32Max - 1) + (b - I32Max - 1)
    ELSE IF a < 0 /\ b < 0 /\ a < (-I32Max - 1) - b
    THEN (a + I32Max + 1) + (b + I32Max + 1)
    ELSE a + b

Cell(k, v) == [k |-> k, v |-> v]

Width(c) ==
    CASE c.k = "num"  -> 4
      [] c.k = "hash" -> HASH_SIZE
      [] c.k = "cnt"  -> 4
      [] c.k = "info" -> INFO_SIZE
      [] c.k = "size" -> 4
      [] c.k = "off"  -> 4
      [] OTHER        -> 1     \* "byte": one byte of payload

RECURSIVE FileBytes(_)
FileBytes(f) == IF f = << >> THEN 0 ELSE Width(Head(f)) + FileBytes(Tail(f))

RECURSIVE SumSeq(_)
SumSeq(q) == IF q = << >> THEN 0 ELSE Head(q) + SumSeq(Tail(q))

Min(a, b) == IF a <= b THEN a ELSE b

\* What a read of a byte that belongs to a header field returns: some byte
\* that is no payload byte of the model (payload bytes are positive).
HdrByte == 0 - 1

\* read(fd) of len bytes at byte offset off of file f: the bytes that exist
\* (a read past the end of the file is short).
RECURSIVE ReadAt(_, _, _)
ReadAt(f, off, len) ==
    IF len <= 0 \/ f = << >> THEN << >>
    ELSE LET w == Width(Head(f))
         IN IF off >= w THEN ReadAt(Tail(f), off - w, len)
            ELSE IF Head(f).k = "byte"
                 THEN <<Head(f).v>> \o ReadAt(Tail(f), 0, len - 1)
                 ELSE LET n == Min(len, w - off)
                      IN [i \in 1..n |-> HdrByte] \o ReadAt(Tail(f), 0, len - n)

Bytes(data) == [i \in 1..Len(data) |-> Cell("byte", data[i])]

VARIABLES
    mdFile,       \* the log file: a sequence of cells
    mdState,      \* "closed" | "open" | "failed" (open returned false)
    refcounts,    \* MetadataLog::refcounts (while the log is closed: the map
                  \* the log object held when it was closed)
    mdTr,         \* the caller's MdTransaction: [live, counts]
    mdLast,       \* history: the last operation on the log (open, commit, ...)
    mdRewritten   \* history: a rewrite has happened

mdVars == <<mdFile, mdState, refcounts, mdTr, mdLast, mdRewritten>>

VARIABLES
    compression,  \* the build option ENABLE_COMPRESSION
    file,         \* pack id -> the pack file behind Packfile::fd (cells)
    fileSize,     \* pack id -> Packfile::fileSize
    numObjects,   \* pack id -> Packfile::numObjects
    index,        \* the Index: hash -> IndexEntry
    tr,           \* the caller's PfTransaction
    pc,           \* where the running Packfile call stands ("idle": none)
    cur,          \* locals of the running call; once it has returned, its
                  \* arguments and its result (the locals are gone)
    stream,       \* receive: the bytes of the incoming stream not yet read
    added,        \* history: hashes added with addPayload and committed
    written       \* history: cells written to each pack, purged ones included

pkVars == <<compression, file, fileSize, numObjects, index, tr, pc, cur,
            stream, added, written>>

VARIABLES
    packsOnDisk,  \* the ids of the pack<id>.pak files in the root directory
    freeListFile, \* the free-list file: [exists, list]
    mgrUp,        \* a PackfileManager object exists
    freeList,     \* PackfileManager::freeList
    origin,       \* history: "loaded" | "recomputed", how the constructor
                  \* got the list ("none" before the first construction)
    existingAtStart, \* history: packsOnDisk when the manager was constructed
    allocated,    \* history: the ids newPackfile has returned in this manager
    packfileCache, \* PackfileManager::_packfileCache: pack id -> Packfile object
    pfHeld,       \* the Packfile objects callers hold a Packfile::sp to
    pfSerial      \* the number of Packfile objects this manager has made

cacheVars == <<packfileCache, pfHeld, pfSerial>>

mgrVars == <<packsOnDisk, freeListFile, mgrUp, freeList, origin,
             existingAtStart, allocated, cacheVars>>

VARIABLES
    head,         \* ori_priv::head: the commit the mount shows, [hash, tree]
    headtree,     \* ori_priv::headtree: the root Tree of head (name -> entry)
    repoObjects,  \* the hashes of the objects the repository and the temp
                  \* directory hold
    nCommits,     \* the number of commits fuseCommit has made
    currTreeDiff, \* ori_priv::currTreeDiff: [live, entries, latestEntries]
    currTempDir,  \* ori_priv::currTempDir: the temp directory it points to
    anyFilesOpen, \* openedFiles.anyFilesOpen()
    eteCache,     \* path -> ExtendedTreeEntry
    teCache,      \* path -> TreeEntry
    nlinkCache,   \* path -> link count
    lock_repo,    \* ori_priv::lock_repo: [writer, readers]
    th            \* per thread: where it is in its FUSE operation, its locals
                  \* and what its last call returned

fuseVars == <<head, headtree, repoObjects, nCommits, currTreeDiff, currTempDir,
              anyFilesOpen, eteCache, teCache, nlinkCache, lock_repo, th>>

vars == <<mdVars, pkVars, mgrVars, fuseVars>>

notMd == <<pkVars, mgrVars, fuseVars>>
notPk == <<mdVars, mgrVars, fuseVars>>
notMgr == <<mdVars, pkVars, fuseVars>>
notFuse == <<mdVars, pkVars, mgrVars>>

NoTr == [live |-> FALSE, counts |-> EmptyMap]

LiveTr(counts) == [live |-> TRUE, counts |-> counts]

\* The hashes handed to addRef, and the deltas a transaction may stage for
\* one hash before it is committed.
MdHashes == {1, 2}

MdDeltas == {-1, 0, 1}

\* The hash for which ObjectHash::isEmpty() holds (all bytes zero: the first
\* key of any map that holds it)
EmptyHash == 0

\* The run is cut where the log file or a count leaves the model's range.
MdCounts == -2..2

MdInBounds(r) ==
    /\ Len(r.file) <= MaxLogCells
    /\ \A h \in DOMAIN r.map : r.map[h] \in MdCounts

\* ------------------------------------------------------------------------
\* MetadataLog
\* ------------------------------------------------------------------------

\* The count open keeps for a hash it reads: refcounts[hash] = refcount.
MdLoadedCountSummed(map, hash, refcount) == U32Add(MapGet(map, hash, 0), refcount)
MdLoadedCount(map, hash, refcount) == refcount

\* The body of the for loop of MetadataLog::open, for the num pairs that
\* follow position pos.
RECURSIVE MdReadPairs(_, _, _, _)
MdReadPairs(f, pos, num, map) ==
    IF num = 0 \/ pos + 1 > Len(f) THEN map
    ELSE MdReadPairs(f, pos + 2, num - 1,
                     MapPut(map, f[pos].v, MdLoadedCount(map, f[pos].v, f[pos + 1].v)))

\* MetadataLog::open, the corruption check on an entry of num pairs, with
\* readSoFar bytes read (the count field included) of a file of st_size bytes
MdEntryCorruptIgnoringRead(num, readSoFar, st_size) ==
    num * (HASH_SIZE + 4) > st_size
MdEntryCorrupt(num, readSoFar, st_size) ==
    num * (HASH_SIZE + 4) + readSoFar > st_size

\* MetadataLog::open: the read loop.  Returns [ok, map].
RECURSIVE MdReadLog(_, _, _, _)
MdReadLog(f, pos, readSoFar, map) ==
    IF pos > Len(f) THEN [ok |-> TRUE, map |-> map]
    ELSE LET num == f[pos].v
             soFar == readSoFar + 4
         IN IF MdEntryCorrupt(num, soFar, FileBytes(f))
            THEN [ok |-> FALSE, map |-> map]
            ELSE MdReadLog(f, pos + 1 + 2 * num,
                           soFar + num * (HASH_SIZE + 4),
                           MdReadPairs(f, pos + 1, num, map))

\* The count that commit stores for one hash.
MdFinalCount(rc, delta) == U32Add(rc, delta)

\* The loop of MetadataLog::commit over tr->counts (keys in map order):
\* returns [ws, map], the staging buffer and the updated refcounts.
RECURSIVE MdCommitLoop(_, _, _, _)
MdCommitLoop(keys, counts, ws, map) ==
    IF keys = << >> THEN [ws |-> ws, map |-> map]
    ELSE LET hash == Head(keys)
             final_count == MdFinalCount(MapGet(map, hash, 0), counts[hash])
         IN MdCommitLoop(Tail(keys), counts,
                         ws \o <<Cell("hash", hash), Cell("cnt", final_count)>>,
                         MapPut(map, hash, final_count))

MdCommitEffectNoEarlyReturn(log, map, counts) ==
    LET r == MdCommitLoop(SetToSortedSeq(DOMAIN counts), counts, << >>, map)
    IN [file |-> log \o <<Cell("num", Cardinality(DOMAIN counts))>> \o r.ws,
        map |-> r.map]

\* MetadataLog::commit: returns [file, map].  The descriptor is opened with
\* O_APPEND, so both writes land at the end of the file.
MdCommitEffect(log, map, counts) ==
    LET num == Cardinality(DOMAIN counts)
    IN IF num = 0 THEN [file |-> log, map |-> map]
       ELSE LET r == MdCommitLoop(SetToSortedSeq(DOMAIN counts), counts, << >>, map)
            IN [file |-> log \o <<Cell("num", num)>> \o r.ws, map |-> r.map]

\* The map the transaction of rewrite commits against (refcounts.clear()).
MdRewriteBaseKept(map) == map
MdRewriteBase(map) == EmptyMap

\* MetadataLog::rewrite(NULL): truncate, seed a transaction with the
\* current map, clear the map; the transaction commits when it goes out
\* of scope at the end of the function.
MdRewriteEffect(map) == MdCommitEffect(<< >>, MdRewriteBase(map), map)

InitMd ==
    /\ mdFile = << >>
    /\ mdState = "closed"
    /\ refcounts = EmptyMap
    /\ mdTr = NoTr
    /\ mdLast = "none"
    /\ mdRewritten = FALSE

\* MetadataLog::open on a newly constructed MetadataLog
MdOpen ==
    /\ mdState = "closed"
    /\ LET r == MdReadLog(mdFile, 1, 0, EmptyMap)
       IN /\ refcounts' = r.map
          /\ mdState' = IF r.ok THEN "open" ELSE "failed"
    /\ mdLast' = "open"
    /\ UNCHANGED <<mdFile, mdTr, mdRewritten>>
    /\ UNCHANGED notMd

\* MetadataLog::begin
MdBegin ==
    /\ mdState = "open"
    /\ ~mdTr.live
    /\ mdTr' = LiveTr(EmptyMap)
    /\ UNCHANGED <<mdFile, mdState, refcounts, mdLast, mdRewritten>>
    /\ UNCHANGED notMd

\* MetadataLog::addRef(hash, trs) with a transaction
MdAddRef(hash) ==
    /\ mdState = "open"
    /\ mdTr.live
    /\ U32Add(MapGet(mdTr.counts, hash, 0), 1) \in MdDeltas
    /\ mdTr' = LiveTr(MapPut(mdTr.counts, hash, U32Add(MapGet(mdTr.counts, hash, 0), 1)))
    /\ UNCHANGED <<mdFile, mdState, refcounts, mdLast, mdRewritten>>
    /\ UNCHANGED notMd

\* An explicit decrement of a delta: tr->counts[hash] -= 1 (refcount_t is
\* unsigned, the delta wraps)
MdDecRef(hash) ==
    /\ mdState = "open"
    /\ mdTr.live
    /\ U32Add(MapGet(mdTr.counts, hash, 0), -1) \in MdDeltas
    /\ mdTr' = LiveTr(MapPut(mdTr.counts, hash, U32Add(MapGet(mdTr.counts, hash, 0), -1)))
    /\ UNCHANGED <<mdFile, mdState, refcounts, mdLast, mdRewritten>>
    /\ UNCHANGED notMd

\* MetadataLog::addRef(hash, NULL): the transaction made by begin() is
\* released, and so committed, when addRef returns.
MdAddRefNoTr(hash) ==
    /\ mdState = "open"
    /\ LET r == MdCommitEffect(mdFile, refcounts, MapPut(EmptyMap, hash, 1))
       IN /\ MdInBounds(r)
          /\ mdFile' = r.file
          /\ refcounts' = r.map
    /\ mdLast' = "commit"
    /\ UNCHANGED <<mdState, mdTr, mdRewritten>>
    /\ UNCHANGED notMd

\* MetadataLog::commit(tr) called on a live transaction
MdCommit ==
    /\ mdState = "open"
    /\ mdTr.live
    /\ LET r == MdCommitEffect(mdFile, refcounts, mdTr.counts)
       IN /\ MdInBounds(r)
          /\ mdFile' = r.file
          /\ refcounts' = r.map
    /\ mdTr' = LiveTr(EmptyMap)
    /\ mdLast' = IF mdTr.counts = EmptyMap THEN "commit of nothing" ELSE "commit"
    /\ UNCHANGED <<mdState, mdRewritten>>
    /\ UNCHANGED notMd

\* MetadataLog::commit(tr), by the owner or by the destructor, in a build
\* with assertions, of a transaction that holds the empty hash: the count
\* field is written (line 137), the assertion of line 144 fails in the first
\* turn of the loop and the process is gone.  (In a build without
\* assertions the commit goes on as MdCommit and MdRelease do.)
MdCommitAssert ==
    /\ mdState = "open"
    /\ mdTr.live
    /\ EmptyHash \in DOMAIN mdTr.counts
    /\ Len(mdFile) + 1 <= MaxLogCells
    /\ mdFile' = mdFile \o <<Cell("num", Cardinality(DOMAIN mdTr.counts))>>
    /\ mdState' = "closed"
    /\ mdTr' = NoTr
    /\ mdLast' = "assertion failed"
    /\ UNCHANGED <<refcounts, mdRewritten>>
    /\ UNCHANGED notMd

\* MdTransaction::~MdTransaction
MdRelease ==
    /\ mdState = "open"
    /\ mdTr.live
    /\ LET r == MdCommitEffect(mdFile, refcounts, mdTr.counts)
       IN /\ MdInBounds(r)
          /\ mdFile' = r.file
          /\ refcounts' = r.map
    /\ mdTr' = NoTr
    /\ mdLast' = IF mdTr.counts = EmptyMap THEN "release of nothing" ELSE "release"
    /\ UNCHANGED <<mdState, mdRewritten>>
    /\ UNCHANGED notMd

\* MetadataLog::rewrite()
MdRewrite ==
    /\ mdState = "open"
    /\ LET r == MdRewriteEffect(refcounts)
       IN /\ MdInBounds(r)
          /\ mdFile' = r.file
          /\ refcounts' = r.map
    /\ mdLast' = "rewrite"
    /\ mdRewritten' = TRUE
    /\ UNCHANGED <<mdState, mdTr>>
    /\ UNCHANGED notMd

\* MetadataLog::~MetadataLog: the descriptor is closed.  The next open is on
\* a new MetadataLog object and starts from an empty map.
MdClose ==
    /\ mdState = "open"
    /\ ~mdTr.live
    /\ mdState' = "closed"
    /\ mdLast' = "close"
    /\ UNCHANGED <<mdFile, refcounts, mdTr, mdRewritten>>
    /\ UNCHANGED notMd

NextMd ==
    \/ MdOpen
    \/ MdBegin
    \/ \E hash \in MdHashes : MdAddRef(hash)
    \/ \E hash \in MdHashes : MdDecRef(hash)
    \/ \E hash \in MdHashes : MdAddRefNoTr(hash)
    \/ MdCommit
    \/ MdRelease
    \/ MdRewrite
    \/ MdClose

\* The log with callers that hand any hash to addRef, the empty one
\* included
NextMdAnyHash ==
    \/ MdOpen
    \/ MdBegin
    \/ \E hash \in {EmptyHash, 1} : MdAddRef(hash)
    \/ MdCommit
    \/ MdRelease
    \/ MdCommitAssert
    \/ MdClose

\* The process dies inside MetadataLog::commit: the count field has been
\* written (line 137) and only the first cells of the buffer of line 156
\* reach the file; the log object is gone
MdCrashInCommit(cells) ==
    /\ mdState = "open"
    /\ mdTr.live
    /\ mdTr.counts # EmptyMap
    /\ LET r == MdCommitEffect(mdFile, refcounts, mdTr.counts)
       IN /\ MdInBounds(r)
          /\ Len(mdFile) + 1 + cells < Len(r.file)
          /\ mdFile' = SubSeq(r.file, 1, Len(mdFile) + 1 + cells)
    /\ mdState' = "closed"
    /\ mdTr' = NoTr
    /\ mdLast' = "crash"
    /\ UNCHANGED <<refcounts, mdRewritten>>
    /\ UNCHANGED notMd

\* The log and a crash inside a commit
NextMdCrash ==
    \/ MdOpen
    \/ MdBegin
    \/ \E hash \in MdHashes : MdAddRef(hash)
    \/ \E hash \in MdHashes : MdDecRef(hash)
    \/ \E hash \in MdHashes : MdAddRefNoTr(hash)
    \/ MdCommit
    \/ MdRelease
    \/ MdRewrite
    \/ MdClose
    \/ \E cells \in 0..(2 * Cardinality(MdHashes) - 1) : MdCrashInCommit(cells)

\* ------------------------------------------------------------------------
\* Packfile, PfTransaction and the Index
\* ------------------------------------------------------------------------

\* The build option ENABLE_COMPRESSION is the variable compression, fixed
\* in the initial state.

\* The objects of the model.  The store is content addressed: a hash names
\* one payload.  Hash 1 is an empty object, hash 3 a compressible one.
PkHashes == {1, 2, 3}

PayloadOf(h) ==
    CASE h = 1 -> << >>
      [] h = 2 -> <<5>>
      [] OTHER -> <<7, 7, 7>>

PackIds == {0, 1}

\* The compression codec (zipstream), a run-length code here: an invertible
\* encoding whose output size differs from its input size.
RECURSIVE RunLength(_, _)
RunLength(p, b) == IF p # << >> /\ Head(p) = b THEN 1 + RunLength(Tail(p), b) ELSE 0

RECURSIVE Zip(_)
Zip(p) ==
    IF p = << >> THEN << >>
    ELSE LET n == RunLength(p, Head(p))
         IN <<n, Head(p)>> \o Zip(SubSeq(p, n + 1, Len(p)))

RECURSIVE Unzip(_)
Unzip(z) ==
    IF Len(z) < 2 THEN << >>
    ELSE (IF z[1] >= 1 THEN [i \in 1..z[1] |-> z[2]] ELSE <<HdrByte>>)
         \o Unzip(SubSeq(z, 3, Len(z)))

\* The admission test of addPayload: ratio <= COMPCHECK_RATIO, on a payload
\* shorter than COMPCHECK_BYTES (the sample is then the whole stream).
CompressionPays(compSize, consumed) == compSize * 100 <= 95 * consumed

\* The ObjectInfo a caller hands to addPayload for object h
InfoOf(h) == [hash |-> h, compressed |-> FALSE, payload_size |-> Len(PayloadOf(h))]

\* PfTransaction::addPayload: the (info, stored payload) pushed on the batch
AddPayloadEffect(zip, info, payload) ==
    IF zip /\ Len(payload) > ZIP_MINIMUM_SIZE
           /\ CompressionPays(Len(Zip(payload)), Len(payload))
    THEN [info |-> [info EXCEPT !.compressed = TRUE], payload |-> Zip(payload)]
    ELSE [info |-> info, payload |-> payload]

ENTRYSIZE == INFO_SIZE + 4 + 4

\* Packfile::commit, offset of the first payload of the group being written
FirstPayloadOffsetNoCount(size, n) == size + n * ENTRYSIZE
FirstPayloadOffset(size, n) == size + 4 + n * ENTRYSIZE

\* Packfile::commit, the offsets vector: off starts after the header block
\* and advances by each payload's size
CommitOffsets(size, payloads) ==
    [i \in 1..Len(payloads) |->
        FirstPayloadOffset(size, Len(payloads))
        + SumSeq([j \in 1..(i - 1) |-> Len(payloads[j])])]

\* The header block of a group: num, then (info, stored size, offset) per
\* object
RECURSIVE HeaderCells(_, _, _)
HeaderCells(infos, sizes, offsets) ==
    IF infos = << >> THEN << >>
    ELSE <<Cell("info", Head(infos)), Cell("size", Head(sizes)),
           Cell("off", Head(offsets))>>
         \o HeaderCells(Tail(infos), Tail(sizes), Tail(offsets))

\* (a header block that is left out for a batch without objects)
HeaderBlockUnlessEmpty(infos, sizes, offsets) ==
    IF infos = << >> THEN << >>
    ELSE <<Cell("num", Len(infos))>> \o HeaderCells(infos, sizes, offsets)

HeaderBlock(infos, sizes, offsets) ==
    <<Cell("num", Len(infos))>> \o HeaderCells(infos, sizes, offsets)

IndexEntry(info, offset, packed_size, packfile) ==
    [info |-> info, offset |-> offset, packed_size |-> packed_size,
     packfile |-> packfile]

RECURSIVE PayloadCells(_)
PayloadCells(payloads) ==
    IF payloads = << >> THEN << >>
    ELSE Bytes(Head(payloads)) \o PayloadCells(Tail(payloads))

\* The group Packfile::commit appends for a batch to a file of size bytes
BatchGroup(size, infos, payloads) ==
    HeaderBlock(infos, [i \in 1..Len(payloads) |-> Len(payloads[i])],
                CommitOffsets(size, payloads))
    \o PayloadCells(payloads)

\* Packfile::getPayload on the pack whose file is f
GetPayload(f, entry) ==
    LET stored == ReadAt(f, entry.offset, entry.packed_size)
    IN IF entry.info.compressed THEN Unzip(stored) ELSE stored

\* The read loop of Packfile::purge: the objects of a pack file, group by
\* group, from cell p at byte offset base.  Each object is
\* [info, ssize, off, data, pos]; pos is the byte offset its payload has in
\* the file (purge itself does not use off and pos).
RECURSIVE ReadGroups(_, _, _)
ReadGroups(f, p, base) ==
    IF p > Len(f) THEN << >>
    ELSE LET num == f[p].v
             ssize == [i \in 1..num |-> f[p + 3 * i - 1].v]
             q == p + 3 * num + 1
             dataBase == base + 4 + num * ENTRYSIZE
             before(i) == SumSeq([j \in 1..(i - 1) |-> ssize[j]])
             total == SumSeq(ssize)
         IN [i \in 1..num |->
                [info |-> f[p + 3 * i - 2].v,
                 ssize |-> ssize[i],
                 off |-> f[p + 3 * i].v,
                 data |-> [k \in 1..ssize[i] |-> f[q + before(i) + k - 1].v],
                 pos |-> dataBase + before(i)]]
            \o ReadGroups(f, q + total, dataBase + total)

\* Packfile::transmit: std::sort(objects, _offsetCmp) leaves objects of
\* equal offset in any order
IsPermutation(q, S) == Len(q) = Cardinality(S) /\ {q[i] : i \in 1..Len(q)} = S

SortedByOffset(q) == \A i \in 1..(Len(q) - 1) : q[i].offset <= q[i + 1].offset

TransmitOrdersUnsorted(S) ==
    {q \in [1..Cardinality(S) -> S] : IsPermutation(q, S)}
TransmitOrders(S) ==
    {q \in [1..Cardinality(S) -> S] : IsPermutation(q, S) /\ SortedByOffset(q)}

MapRemove(m, k) == [x \in DOMAIN m \ {k} |-> m[x]]

\* the "Fix the rest of the array" loop of transmit
RECURSIVE FixBlocks(_, _, _)
FixBlocks(blocks, offset, off_end) ==
    IF off_end \in DOMAIN blocks
    THEN LET new_end == blocks[off_end]
         IN FixBlocks(MapPut(MapRemove(blocks, off_end), offset, new_end),
                      offset, new_end)
    ELSE blocks

\* the first loop of transmit: the contiguous blocks, offset -> end
RECURSIVE FindBlocks(_, _, _)
FindBlocks(objects, i, blocks) ==
    IF i > Len(objects) THEN blocks
    ELSE LET offset == objects[i].offset
             off_end == offset + objects[i].packed_size
         IN IF objects[i].packed_size = 0
            THEN FindBlocks(objects, i + 1, blocks)
            ELSE IF DOMAIN blocks = {}
            THEN FindBlocks(objects, i + 1, MapPut(blocks, offset, off_end))
            ELSE LET below == {k \in DOMAIN blocks : k <= offset}
                     start ==
                         IF below = {} THEN offset
                         ELSE LET it == CHOOSE k \in below : \A y \in below : y <= k
                              IN IF blocks[it] = offset THEN it ELSE offset
                 IN FindBlocks(objects, i + 1,
                               FixBlocks(MapPut(blocks, start, off_end),
                                         start, off_end))

RECURSIVE InfoTable(_)
InfoTable(objects) ==
    IF objects = << >> THEN << >>
    ELSE <<Cell("info", Head(objects).info),
           Cell("size", Head(objects).packed_size)>> \o InfoTable(Tail(objects))

RECURSIVE BlockData(_, _, _)
BlockData(f, keys, blocks) ==
    IF keys = << >> THEN << >>
    ELSE Bytes(ReadAt(f, Head(keys), blocks[Head(keys)] - Head(keys)))
         \o BlockData(f, Tail(keys), blocks)

\* Packfile::transmit: what is written to the stream for the sorted objects
TransmitStream(f, objects) ==
    LET blocks == FindBlocks(objects, 1, EmptyMap)
    IN <<Cell("num", Len(objects))>> \o InfoTable(objects)
       \o BlockData(f, SetToSortedSeq(DOMAIN blocks), blocks)

\* ASSERT(n == len) of transmit: every block is read in full
BlocksReadable(f, objects) ==
    LET blocks == FindBlocks(objects, 1, EmptyMap)
    IN \A k \in DOMAIN blocks : blocks[k] <= FileBytes(f)

\* (appends is history: the number of times Packfile::commit has been
\* entered to write the batch of this transaction)
NoPkTr == [live |-> FALSE, pf |-> 0, infos |-> << >>, payloads |-> << >>,
           totalSize |-> 0, committed |-> FALSE, appends |-> 0]

\* PfTransaction::~PfTransaction, the test of line 27: the destructor
\* commits
ReleaseCommitsAlways(committed) == TRUE
ReleaseCommits(committed) == ~committed

NoCall == [op |-> "none", pf |-> 0, owner |-> "none", infos |-> << >>,
           payloads |-> << >>, offsets |-> << >>, i |-> 0, hset |-> {},
           before |-> << >>, src |-> EmptyMap, base |-> 0, ret |-> FALSE]

\* Packfile::Packfile on new files, an empty Index, no transaction
InitPk(zipOptions) ==
    /\ compression \in zipOptions
    /\ file = [p \in PackIds |-> << >>]
    /\ fileSize = [p \in PackIds |-> 0]
    /\ numObjects = [p \in PackIds |-> 0]
    /\ index = EmptyMap
    /\ tr = NoPkTr
    /\ pc = "idle"
    /\ cur = NoCall
    /\ stream = << >>
    /\ added = {}
    /\ written = [p \in PackIds |-> 0]

\* Packs an earlier run can have left: two groups, each the batch of a
\* transaction of up to two objects
StoredPacks ==
    { <<<<2>>, <<3, 1>>>>, <<<<1, 2>>, <<3>>>>, <<<<2>>, << >>>> }

\* The file of a pack after a transaction per element of groups has added
\* the objects of the element and was committed
RECURSIVE PackOfBatches(_, _, _)
PackOfBatches(groups, zip, f) ==
    IF groups = << >> THEN f
    ELSE LET hs == Head(groups)
             a == [i \in 1..Len(hs) |->
                      AddPayloadEffect(zip, InfoOf(hs[i]), PayloadOf(hs[i]))]
         IN PackOfBatches(Tail(groups), zip,
                f \o BatchGroup(FileBytes(f), [i \in 1..Len(hs) |-> a[i].info],
                                [i \in 1..Len(hs) |-> a[i].payload]))

\* The index after those commits: the entry of each object, a later one in
\* the place of an earlier one of the same hash
RECURSIVE IndexOfObjects(_, _, _)
IndexOfObjects(objs, p, idx) ==
    IF objs = << >> THEN idx
    ELSE LET o == Head(objs)
         IN IndexOfObjects(Tail(objs), p,
                MapPut(idx, o.info.hash, IndexEntry(o.info, o.off, o.ssize, p)))

\* Packfile::Packfile on the file an earlier run left for pack 0, and the
\* Index of that run
InitPkStored(zipOptions, packs) ==
    /\ compression \in zipOptions
    /\ \E groups \in packs :
          LET f == PackOfBatches(groups, compression, << >>)
              objs == ReadGroups(f, 1, 0)
          IN /\ file = [p \in PackIds |-> IF p = 0 THEN f ELSE << >>]
             /\ fileSize = [p \in PackIds |-> IF p = 0 THEN FileBytes(f) ELSE 0]
             /\ numObjects = [p \in PackIds |-> IF p = 0 THEN Len(objs) ELSE 0]
             /\ index = IndexOfObjects(objs, 0, EmptyMap)
             /\ added = {objs[i].info.hash : i \in 1..Len(objs)}
    /\ tr = NoPkTr
    /\ pc = "idle"
    /\ cur = NoCall
    /\ stream = << >>
    /\ written = [p \in PackIds |-> 0]

\* Packfile::begin
PkBegin(p) ==
    /\ pc = "idle"
    /\ ~tr.live
    /\ tr' = [NoPkTr EXCEPT !.live = TRUE, !.pf = p]
    /\ UNCHANGED <<compression, file, fileSize, numObjects, index, pc, cur, stream, added, written>>
    /\ UNCHANGED notPk

\* PfTransaction::addPayload(info, payload)
PkAddPayload(h) ==
    /\ pc = "idle"
    /\ tr.live
    /\ ~tr.committed
    /\ Len(tr.infos) < MaxBatch
    /\ LET a == AddPayloadEffect(compression, InfoOf(h), PayloadOf(h))
       IN /\ written[tr.pf] + 1 + 3 * (Len(tr.infos) + 1)
                + tr.totalSize + Len(a.payload) <= MaxPackCells
          /\ tr' = [tr EXCEPT !.infos = Append(@, a.info),
                              !.payloads = Append(@, a.payload),
                              !.totalSize = @ + Len(a.payload)]
    /\ UNCHANGED <<compression, file, fileSize, numObjects, index, pc, cur, stream, added, written>>
    /\ UNCHANGED notPk

\* Packfile::commit, up to the write of the header block (lines 144-162)
\* for the batch (infos, payloads) of a transaction of pack p
CommitHeaders(p, owner, infos, payloads) ==
    LET offsets == CommitOffsets(fileSize[p], payloads)
        headers == HeaderBlock(infos, [i \in 1..Len(payloads) |-> Len(payloads[i])],
                               offsets)
    IN /\ Len(infos) = Len(payloads)
       /\ written[p] + Len(headers)
             + SumSeq([i \in 1..Len(payloads) |-> Len(payloads[i])]) <= MaxPackCells
       /\ written' = [written EXCEPT ![p] = @ + Len(headers)]
       /\ file' = [file EXCEPT ![p] = @ \o headers]
       /\ fileSize' = [fileSize EXCEPT ![p] = @ + FileBytes(headers)]
       /\ cur' = [(IF owner = "purge" THEN cur ELSE NoCall) EXCEPT
                      !.op = IF owner = "purge" THEN "purge" ELSE "commit",
                      !.pf = p, !.owner = owner, !.infos = infos,
                      !.payloads = payloads, !.offsets = offsets,
                      !.i = 1, !.ret = FALSE]
       /\ pc' = "commitPayload"

\* Packfile::commit(t, idx) called by the owner of the transaction, once
PkCommit ==
    /\ pc = "idle"
    /\ tr.live
    /\ ~tr.committed
    /\ CommitHeaders(tr.pf, "user", tr.infos, tr.payloads)
    /\ tr' = [tr EXCEPT !.appends = @ + 1]
    /\ UNCHANGED <<compression, numObjects, index, stream, added>>
    /\ UNCHANGED notPk

\* PfTransaction::~PfTransaction of a transaction not yet committed
PkRelease ==
    /\ pc = "idle"
    /\ tr.live
    /\ ReleaseCommits(tr.committed)
    /\ CommitHeaders(tr.pf, "release", tr.infos, tr.payloads)
    /\ tr' = [tr EXCEPT !.appends = @ + 1]
    /\ UNCHANGED <<compression, numObjects, index, stream, added>>
    /\ UNCHANGED notPk

\* PfTransaction::~PfTransaction of a committed transaction
PkReleaseCommitted ==
    /\ pc = "idle"
    /\ tr.live
    /\ ~ReleaseCommits(tr.committed)
    /\ tr' = NoPkTr
    /\ UNCHANGED <<compression, file, fileSize, numObjects, index, pc, cur, stream, added, written>>
    /\ UNCHANGED notPk

\* Packfile::commit, one turn of the payload loop (lines 164-176)
PkCommitPayload ==
    /\ pc = "commitPayload"
    /\ cur.i <= Len(cur.payloads)
    /\ LET p == cur.pf
           payload == cur.payloads[cur.i]
           info == cur.infos[cur.i]
       IN /\ file' = [file EXCEPT ![p] = @ \o Bytes(payload)]
          /\ fileSize' = [fileSize EXCEPT ![p] = @ + Len(payload)]
          /\ numObjects' = [numObjects EXCEPT ![p] = @ + 1]
          /\ index' = MapPut(index, info.hash,
                             IndexEntry(info, cur.offsets[cur.i], Len(payload), p))
          /\ added' = IF cur.owner = "purge" THEN added ELSE added \cup {info.hash}
    /\ cur' = [cur EXCEPT !.i = @ + 1]
    /\ written' = [written EXCEPT ![cur.pf] = @ + Len(cur.payloads[cur.i])]
    /\ UNCHANGED <<compression, tr, pc, stream>>
    /\ UNCHANGED notPk

\* Packfile::commit, t->committed = true (line 178) and the return to the
\* caller: the owner, the destructor, or purge (lines 262-265)
PkCommitDone ==
    /\ pc = "commitPayload"
    /\ cur.i > Len(cur.payloads)
    /\ tr' = CASE cur.owner = "user" -> [tr EXCEPT !.committed = TRUE]
               [] cur.owner = "release" -> NoPkTr
               [] OTHER -> tr
    /\ cur' = [cur EXCEPT !.ret = (cur.owner = "purge" /\ Len(cur.payloads) = 0),
                          !.infos = << >>, !.payloads = << >>,
                          !.offsets = << >>, !.i = 0]
    /\ pc' = "idle"
    /\ UNCHANGED <<compression, file, fileSize, numObjects, index, stream, added, written>>
    /\ UNCHANGED notPk

\* Packfile::getPayload resolved through the index
Lookup(h) == GetPayload(file[index[h].packfile], index[h])

\* Packfile::purge(hset, idx), lines 198-247: the batch of the objects kept
PurgeKept(objs, hset) == SelectSeq(objs, LAMBDA o : o.info.hash \notin hset)

\* purge, line 207: skip is a local of the body of the while loop, empty at
\* the start of each group
SkipOfGroupKept(prev) == prev
SkipOfGroup(prev) == {}

\* purge, the while loop of lines 205-247 from cell p of file f on: the
\* header loop pushes the info of each object whose hash is not in hset and
\* notes the positions of the others in skip, the payload loop pushes the
\* payload at each position that is not in skip.  Returns the batch of tr.
RECURSIVE PurgeLoop(_, _, _, _, _)
PurgeLoop(f, p, hset, prev, batch) ==
    IF p > Len(f) THEN batch
    ELSE LET num == f[p].v
             storedSizes == [i \in 1..num |-> f[p + 3 * i - 1].v]
             info(i) == f[p + 3 * i - 2].v
             purged == {i \in 1..num : info(i).hash \in hset}
             skip == SkipOfGroup(prev) \cup purged
             q == p + 3 * num + 1
             before(i) == SumSeq([j \in 1..(i - 1) |-> storedSizes[j]])
             payload(i) == [k \in 1..storedSizes[i] |-> f[q + before(i) + k - 1].v]
             withInfo == SelectSeq([i \in 1..num |-> i], LAMBDA i : i \notin purged)
             withPayload == SelectSeq([i \in 1..num |-> i], LAMBDA i : i \notin skip)
         IN PurgeLoop(f, q + SumSeq(storedSizes), hset, skip,
                [infos |-> batch.infos
                     \o [k \in 1..Len(withInfo) |-> info(withInfo[k])],
                 payloads |-> batch.payloads
                     \o [k \in 1..Len(withPayload) |-> payload(withPayload[k])]])

\* (called while the caller holds no open transaction)
PkPurgeRead(p, hset) ==
    /\ pc = "idle"
    /\ ~tr.live
    /\ LET objs == ReadGroups(file[p], 1, 0)
           batch == PurgeLoop(file[p], 1, hset, {},
                              [infos |-> << >>, payloads |-> << >>])
       IN cur' = [NoCall EXCEPT !.op = "purge", !.pf = p, !.owner = "purge",
                                !.hset = hset, !.before = objs,
                                !.infos = batch.infos,
                                !.payloads = batch.payloads]
    /\ pc' = "purgeSwap"
    /\ written[p] + 1 + SumSeq([i \in 1..Len(cur'.payloads) |->
                                    3 + Len(cur'.payloads[i])]) <= MaxPackCells
    /\ UNCHANGED <<compression, file, fileSize, numObjects, index, tr, stream, added, written>>
    /\ UNCHANGED notPk

\* purge, lines 249-259: fd now is the new, empty <name>.tmp, renamed over
\* the pack file
PkPurgeSwap ==
    /\ pc = "purgeSwap"
    /\ file' = [file EXCEPT ![cur.pf] = << >>]
    /\ pc' = "purgeCommit"
    /\ UNCHANGED <<compression, fileSize, numObjects, index, tr, cur, stream, added, written>>
    /\ UNCHANGED notPk

\* purge, line 263: tr.reset() commits the batch of the kept objects
PkPurgeCommit ==
    /\ pc = "purgeCommit"
    /\ CommitHeaders(cur.pf, "purge", cur.infos, cur.payloads)
    /\ UNCHANGED <<compression, numObjects, index, tr, stream, added>>
    /\ UNCHANGED notPk

\* Packfile::receive, offsets of the objects of the incoming group
ReceiveOffsetsFromZero(size, sizes) ==
    [i \in 1..Len(sizes) |->
        4 + Len(sizes) * ENTRYSIZE + SumSeq([j \in 1..(i - 1) |-> sizes[j]])]

ReceiveOffsets(size, sizes) ==
    [i \in 1..Len(sizes) |->
        size + 4 + Len(sizes) * ENTRYSIZE + SumSeq([j \in 1..(i - 1) |-> sizes[j]])]

\* the index after the updateEntry calls of the first loop of receive
RECURSIVE ReceiveIndex(_, _, _, _, _, _)
ReceiveIndex(idx, infos, sizes, offsets, p, i) ==
    IF i > Len(infos) THEN idx
    ELSE ReceiveIndex(MapPut(idx, infos[i].hash,
                             IndexEntry(infos[i], offsets[i], sizes[i], p)),
                      infos, sizes, offsets, p, i + 1)

\* The index entries of pack p
EntriesOf(p) == {index[h] : h \in {x \in DOMAIN index : index[x].packfile = p}}

\* Packfile::receive(bs, idx) on pack p, lines 363-390: num and the info
\* table are read, the index is updated.  The stream bs is one that
\* transmit writes for index entries S of pack src, sorted into objects.
\* (Called while the caller holds no open transaction.)
PkReceiveTable(src, S, p) ==
    /\ pc = "idle"
    /\ ~tr.live
    /\ \E objects \in TransmitOrders(S) :
        /\ BlocksReadable(file[src], objects)
        /\ LET bs == TransmitStream(file[src], objects)
               num == bs[1].v
               infos == [i \in 1..num |-> bs[2 * i].v]
               sizes == [i \in 1..num |-> bs[2 * i + 1].v]
               offsets == ReceiveOffsets(fileSize[p], sizes)
               call == [NoCall EXCEPT
                           !.op = "receive", !.pf = p, !.base = fileSize[p],
                           !.src = [h \in {e.info.hash : e \in S} |->
                                       GetPayload(file[src], index[h])]]
           IN IF num = 0
              THEN /\ cur' = call
                   /\ pc' = "idle"
                   /\ stream' = << >>
                   /\ index' = index
              ELSE /\ written[p] + 1 + 3 * num + SumSeq(sizes) <= MaxPackCells
                   /\ cur' = [call EXCEPT !.infos = infos, !.payloads = sizes,
                                          !.offsets = offsets]
                   /\ pc' = "receiveHeaders"
                   /\ stream' = SubSeq(bs, 2 * num + 2, Len(bs))
                   /\ index' = ReceiveIndex(index, infos, sizes, offsets, p, 1)
    /\ UNCHANGED <<compression, file, fileSize, numObjects, tr, added, written>>
    /\ UNCHANGED notPk

\* receive, lines 392-393: the header block is written
PkReceiveHeaders ==
    /\ pc = "receiveHeaders"
    /\ LET headers == HeaderBlock(cur.infos, cur.payloads, cur.offsets)
       IN /\ file' = [file EXCEPT ![cur.pf] = @ \o headers]
          /\ fileSize' = [fileSize EXCEPT ![cur.pf] = @ + FileBytes(headers)]
    /\ cur' = [cur EXCEPT !.i = 1]
    /\ pc' = "receiveData"
    /\ written' = [written EXCEPT ![cur.pf] = @ + 1 + 3 * Len(cur.infos)]
    /\ UNCHANGED <<compression, numObjects, index, tr, stream, added>>
    /\ UNCHANGED notPk

\* receive, one turn of the loop of lines 396-404
PkReceivePayload ==
    /\ pc = "receiveData"
    /\ cur.i <= Len(cur.infos)
    /\ LET size == cur.payloads[cur.i]
       IN /\ Len(stream) >= size
          /\ file' = [file EXCEPT ![cur.pf] = @ \o SubSeq(stream, 1, size)]
          /\ fileSize' = [fileSize EXCEPT ![cur.pf] = @ + size]
          /\ stream' = SubSeq(stream, size + 1, Len(stream))
    /\ numObjects' = [numObjects EXCEPT ![cur.pf] = @ + 1]
    /\ cur' = [cur EXCEPT !.i = @ + 1]
    /\ written' = [written EXCEPT ![cur.pf] = @ + cur.payloads[cur.i]]
    /\ UNCHANGED <<compression, index, tr, pc, added>>
    /\ UNCHANGED notPk

\* receive returns true
PkReceiveDone ==
    /\ pc = "receiveData"
    /\ cur.i > Len(cur.infos)
    /\ cur' = [cur EXCEPT !.ret = TRUE, !.infos = << >>, !.payloads = << >>,
                          !.offsets = << >>, !.i = 0]
    /\ pc' = "idle"
    /\ stream' = << >>
    /\ UNCHANGED <<compression, file, fileSize, numObjects, index, tr, added, written>>
    /\ UNCHANGED notPk

\* The steps of a commit that has started
CommitSteps ==
    \/ PkCommitPayload
    \/ PkCommitDone

\* ------------------------------------------------------------------------
\* PackfileManager
\* ------------------------------------------------------------------------

\* _recomputeFreeList: the id pushed last, after the gaps
FreshIdSame(last) == last
FreshId(last) == last + 1

\* _recomputeFreeList, the outer while loop over the sorted vector existing:
\* the inner loop pushes curr .. existing[ix] - 1
RECURSIVE RecomputeLoop(_, _, _, _)
RecomputeLoop(existing, curr, ix, fl) ==
    IF curr < existing[Len(existing)]
    THEN LET n == IF curr < existing[ix] THEN existing[ix] - curr ELSE 0
         IN RecomputeLoop(existing, curr + n + 1, ix + 1,
                          fl \o [i \in 1..n |-> curr + i - 1])
    ELSE fl

\* PackfileManager::_recomputeFreeList on a directory holding the packs E
RecomputeFreeList(E) ==
    IF E # {}
    THEN LET existing == SetToSortedSeq(E)
         IN Append(RecomputeLoop(existing, 0, 1, << >>),
                   FreshId(existing[Len(existing)]))
    ELSE <<0>>

\* PackfileManager::newPackfile, the free list after the call
PoppedFreeList(fl) ==
    IF Len(fl) = 1 THEN <<fl[1] + 1>> ELSE Tail(fl)

\* A root directory holding the packs of one of dirs and no free-list file;
\* no manager yet
InitMgr(dirs) ==
    /\ packsOnDisk \in dirs
    /\ freeListFile = [exists |-> FALSE, list |-> << >>]
    /\ mgrUp = FALSE
    /\ freeList = << >>
    /\ origin = "none"
    /\ existingAtStart = {}
    /\ allocated = << >>
    /\ packfileCache = EmptyMap
    /\ pfHeld = {}
    /\ pfSerial = 0

\* PackfileManager::PackfileManager: _loadFreeList, and when that fails
\* _recomputeFreeList and _writeFreeList
MgrConstruct ==
    /\ ~mgrUp
    /\ mgrUp' = TRUE
    /\ IF freeListFile.exists
       THEN /\ freeList' = freeListFile.list
            /\ origin' = "loaded"
            /\ UNCHANGED freeListFile
       ELSE /\ freeList' = RecomputeFreeList(packsOnDisk)
            /\ origin' = "recomputed"
            /\ freeListFile' = [exists |-> TRUE, list |-> freeList']
    /\ existingAtStart' = packsOnDisk
    /\ allocated' = << >>
    /\ packfileCache' = EmptyMap
    /\ pfHeld' = {}
    /\ pfSerial' = 0
    /\ UNCHANGED packsOnDisk
    /\ UNCHANGED notMgr

\* new Packfile(name, id): an object of its own, with its own descriptor and
\* its own fileSize and numObjects; n tells the objects of one id apart
PackfileObject(id, n) == [id |-> id, n |-> n]

NoEvict == 0 - 1

\* The Packfile objects that are alive: the shared pointers of the cache and
\* of the callers keep them
LivePackfiles == pfHeld \cup {packfileCache[k] : k \in DOMAIN packfileCache}

\* PackfileManager::newPackfile: the Packfile constructor opens
\* pack<id>.pak with O_CREAT
NewPackfile ==
    /\ mgrUp
    /\ freeList[1] <= MaxPackId
    /\ packsOnDisk' = packsOnDisk \cup {freeList[1]}
    /\ allocated' = Append(allocated, freeList[1])
    /\ freeList' = PoppedFreeList(freeList)
    /\ pfHeld' = pfHeld \cup {PackfileObject(freeList[1], pfSerial)}
    /\ pfSerial' = pfSerial + 1
    /\ UNCHANGED <<freeListFile, mgrUp, origin, existingAtStart, packfileCache>>
    /\ UNCHANGED notMgr

\* PackfileManager::getPackfile(id), for the id of a pack that exists (the
\* ids the index hands out).  evict is the key LRUCache::put drops to make
\* room, NoEvict when the cache has room.
GetPackfile(id, evict) ==
    /\ mgrUp
    /\ id \in packsOnDisk
    /\ IF id \notin DOMAIN packfileCache
       THEN /\ pfSerial < MaxHandles
            /\ evict \in (DOMAIN packfileCache) \cup {NoEvict}
            /\ packfileCache' = MapPut(MapRemove(packfileCache, evict), id,
                                       PackfileObject(id, pfSerial))
            /\ pfHeld' = pfHeld \cup {PackfileObject(id, pfSerial)}
            /\ pfSerial' = pfSerial + 1
       ELSE /\ evict = NoEvict
            /\ pfHeld' = pfHeld \cup {packfileCache[id]}
            /\ UNCHANGED <<packfileCache, pfSerial>>
    /\ UNCHANGED <<packsOnDisk, freeListFile, mgrUp, freeList, origin,
                   existingAtStart, allocated>>
    /\ UNCHANGED notMgr

\* A caller lets go of its Packfile::sp
DropPackfile(o) ==
    /\ mgrUp
    /\ o \in pfHeld
    /\ pfHeld' = pfHeld \ {o}
    /\ UNCHANGED <<packsOnDisk, freeListFile, mgrUp, freeList, origin,
                   existingAtStart, allocated, packfileCache, pfSerial>>
    /\ UNCHANGED notMgr

\* PackfileManager::~PackfileManager, at the end of the run: the cache and
\* the callers' pointers go with it
MgrTeardown ==
    /\ mgrUp
    /\ freeListFile' = [exists |-> TRUE, list |-> freeList]
    /\ mgrUp' = FALSE
    /\ packfileCache' = EmptyMap
    /\ pfHeld' = {}
    /\ pfSerial' = 0
    /\ UNCHANGED <<packsOnDisk, freeList, origin, existingAtStart, allocated>>
    /\ UNCHANGED notMgr

\* The process ends and the destructor does not run
MgrCrash ==
    /\ mgrUp
    /\ mgrUp' = FALSE
    /\ packfileCache' = EmptyMap
    /\ pfHeld' = {}
    /\ pfSerial' = 0
    /\ UNCHANGED <<packsOnDisk, freeListFile, freeList, origin,
                   existingAtStart, allocated>>
    /\ UNCHANGED notMgr

\* The free-list file is deleted while no manager runs
DeleteFreeListFile ==
    /\ ~mgrUp
    /\ freeListFile.exists
    /\ freeListFile' = [exists |-> FALSE, list |-> << >>]
    /\ UNCHANGED <<packsOnDisk, mgrUp, freeList, origin, existingAtStart,
                   allocated, cacheVars>>
    /\ UNCHANGED notMgr

NextMgr ==
    \/ MgrConstruct
    \/ NewPackfile
    \/ MgrTeardown
    \/ MgrCrash
    \/ DeleteFreeListFile

\* The directories a run starts from
MgrDirs == SUBSET (0..(MaxPackId - 2))

\* ------------------------------------------------------------------------
\* The FUSE layer: ori_priv over a head tree and a TreeDiff

\* The mount of the model: the directory /d, which every head tree holds,
\* and the one path under it that the FUSE operations change
RootPath == "/"
DirPath == "/d"
LeafPath == "/d/x"
FusePaths == {DirPath, LeafPath}

Util_PathToVector(path) ==
    IF path = DirPath THEN <<"d">>
    ELSE IF path = LeafPath THEN <<"d", "x">>
    ELSE << >>

StrUtil_Basename(path) ==
    IF path = DirPath THEN "d"
    ELSE IF path = LeafPath THEN "x"
    ELSE path

\* AttrMap, reduced to the basic attributes as one value: NoAttrs when they
\* are missing
NoAttrs == 0
FuseAttrs == 0..2

\* AttrMap::mergeFrom: the attributes of the argument override
MergeFrom(attrs, newAttrs) == IF newAttrs = NoAttrs THEN attrs ELSE newAttrs

\* TreeEntry() and TreeEntry::hasBasicAttrs
NullEntry == [type |-> "Null", hash |-> 0, attrs |-> NoAttrs]
HasBasicAttrs(te) == te.attrs # NoAttrs

\* Content hashes: the file of the first head, and the temp file a write or
\* a create leaves its data in
HeadContent == 1
TmpContent == 2
EmptyTreeHash == 100

TypeCode(type) == IF type = "Null" THEN 0 ELSE IF type = "Blob" THEN 1 ELSE 2

\* Tree::hash: one number per tree of the model
TreeHash(tree) ==
    IF DOMAIN tree = {} THEN EmptyTreeHash
    ELSE IF "x" \in DOMAIN tree
    THEN LET e == tree["x"]
         IN 101 + TypeCode(e.type) + 3 * e.attrs
                + 9 * (IF e.type = "Tree" THEN 0 ELSE e.hash)
    ELSE LET e == tree["d"]
         IN 200 + (e.hash - 100) + 50 * e.attrs

LeafEntries ==
    [type : {"Blob"}, hash : {HeadContent, TmpContent}, attrs : FuseAttrs]
    \cup [type : {"Tree"}, hash : {EmptyTreeHash}, attrs : FuseAttrs]

DirTrees == {EmptyMap} \cup {[n \in {"x"} |-> e] : e \in LeafEntries}

RootTrees ==
    {[n \in {"d"} |-> [type |-> "Tree", hash |-> TreeHash(t), attrs |-> a]] :
        t \in DirTrees, a \in FuseAttrs}

\* Tree::fromBlob(repo->getPayload(hash)): the tree stored under a hash
FromBlob(hash) == CHOOSE t \in DirTrees \cup RootTrees : TreeHash(t) = hash

\* Commit::hash of the n-th commit over a tree
CommitHash(tree, n) == 1000 * (n + 1) + tree

\* Tree::flattened: path -> entry
Flattened(root) ==
    LET d == root["d"]
        sub == FromBlob(d.hash)
        top == MapPut(EmptyMap, DirPath, d)
    IN IF "x" \in DOMAIN sub THEN MapPut(top, LeafPath, sub["x"]) ELSE top

\* The tree objects of a flattened tree: the directory /d and the root
DirOfFlat(flat) ==
    IF LeafPath \in DOMAIN flat
    THEN MapPut(EmptyMap, "x", flat[LeafPath])
    ELSE EmptyMap

RootOfFlat(flat) ==
    MapPut(EmptyMap, "d",
           [flat[DirPath] EXCEPT !.hash = TreeHash(DirOfFlat(flat))])

\* TreeDiffEntry
Tde(type, newFilename, newAttrs) ==
    [type |-> type, filepath |-> LeafPath, newFilename |-> newFilename,
     newAttrs |-> newAttrs]

NoTde == [type |-> "Noop", filepath |-> "", newFilename |-> "",
          newAttrs |-> NoAttrs]

IsDeleted(tde) == tde.type \in {"DeletedFile", "DeletedDir"}

\* The entries the FUSE operations hand to mergeAndCommit: create, mkdir
\* (with and without attributes), unlink, rmdir, and a write, which comes
\* with the new size and times
TdeInputs ==
    { Tde("NewFile", "tmp", 1),
      Tde("NewDir", "", 1),
      Tde("NewDir", "", NoAttrs),
      Tde("DeletedFile", "", NoAttrs),
      Tde("DeletedDir", "", NoAttrs),
      Tde("Modified", "tmp", 2) }

\* TreeDiff
NullDiff == [live |-> FALSE, entries |-> << >>, latestEntries |-> EmptyMap]
NewTreeDiff == [live |-> TRUE, entries |-> << >>, latestEntries |-> EmptyMap]

HasLatestEntry(diff, path) == diff.live /\ path \in DOMAIN diff.latestEntries

\* TreeDiff::getLatestEntry; NoTde stands for NULL
GetLatestEntry(diff, path) ==
    IF HasLatestEntry(diff, path)
    THEN diff.entries[diff.latestEntries[path]]
    ELSE NoTde

\* TreeDiff::append
AppendEntry(diff, e) ==
    [diff EXCEPT !.entries = Append(@, e),
                 !.latestEntries = MapPut(@, e.filepath, Len(diff.entries) + 1)]

ReplaceLatest(diff, e) ==
    [diff EXCEPT !.entries[diff.latestEntries[e.filepath]] = e]

\* The latest entry becomes a Noop that getLatestEntry no longer sees
CollapseLatest(diff, path) ==
    [diff EXCEPT !.entries[diff.latestEntries[path]].type = "Noop",
                 !.latestEntries = MapRemove(@, path)]

FoldInto(old, new) ==
    [old EXCEPT !.newFilename = IF new.newFilename # "" THEN new.newFilename
                                ELSE @,
                !.newAttrs = MergeFrom(@, new.newAttrs)]

\* The cells of the merge table that ask for a new layer
GrowsLayer(old, new) ==
    \/ old.type = "NewFile" /\ new.type = "NewDir"
    \/ old.type = "NewDir" /\ new.type = "NewFile"
    \/ old.type = "DeletedFile" /\ new.type = "NewDir"
    \/ old.type = "DeletedDir" /\ new.type = "NewFile"

\* The cells of the merge table that are filled in
MergeDefined(old, new) ==
    \/ old.type = "Noop"
    \/ old.type = "NewFile"
    \/ old.type = "NewDir" /\ new.type # "Modified"
    \/ old.type = "DeletedFile" /\ new.type # "Modified"
    \/ old.type = "DeletedDir" /\ new.type \in {"NewFile", "DeletedDir"}
    \/ old.type = "Modified" /\ new.type # "NewDir"

\* TreeDiff::merge: [diff, grew]
Merge(diff, new) ==
    LET old == GetLatestEntry(diff, new.filepath)
    IN IF ~HasLatestEntry(diff, new.filepath)
       THEN [diff |-> AppendEntry(diff, new), grew |-> FALSE]
       ELSE IF GrowsLayer(old, new)
       THEN [diff |-> AppendEntry(diff, new), grew |-> TRUE]
       ELSE IF old.type \in {"NewFile", "NewDir"} /\ IsDeleted(new)
       THEN [diff |-> CollapseLatest(diff, new.filepath), grew |-> FALSE]
       ELSE IF IsDeleted(old) /\ IsDeleted(new)
       THEN [diff |-> diff, grew |-> FALSE]
       ELSE IF old.type = "Modified" /\ IsDeleted(new)
       THEN [diff |-> ReplaceLatest(diff, new), grew |-> FALSE]
       ELSE IF new.type = "Modified" \/ old.type = "Modified"
       THEN [diff |-> ReplaceLatest(diff, FoldInto(old, new)), grew |-> FALSE]
       ELSE [diff |-> ReplaceLatest(diff, new), grew |-> FALSE]

\* TreeDiff::applyTo: deletions first, additions next, modifications last
RECURSIVE ApplyDeletions(_, _)
ApplyDeletions(flat, entries) ==
    IF entries = << >> THEN flat
    ELSE ApplyDeletions(IF IsDeleted(Head(entries))
                        THEN MapRemove(flat, Head(entries).filepath)
                        ELSE flat,
                        Tail(entries))

AddedEntry(e) ==
    IF e.type = "NewDir"
    THEN [type |-> "Tree", hash |-> EmptyTreeHash, attrs |-> e.newAttrs]
    ELSE [type |-> "Blob",
          hash |-> IF e.newFilename # "" THEN TmpContent ELSE 0,
          attrs |-> e.newAttrs]

RECURSIVE ApplyAdditions(_, _)
ApplyAdditions(flat, entries) ==
    IF entries = << >> THEN flat
    ELSE ApplyAdditions(IF Head(entries).type \in {"NewFile", "NewDir"}
                        THEN MapPut(flat, Head(entries).filepath,
                                    AddedEntry(Head(entries)))
                        ELSE flat,
                        Tail(entries))

ModifiedEntry(te, e) ==
    [te EXCEPT !.hash = IF e.newFilename # "" THEN TmpContent ELSE @,
               !.attrs = MergeFrom(@, e.newAttrs)]

RECURSIVE ApplyModifications(_, _)
ApplyModifications(flat, entries) ==
    IF entries = << >> THEN flat
    ELSE LET e == Head(entries)
         IN ApplyModifications(
                IF e.type = "Modified" /\ e.filepath \in DOMAIN flat
                THEN MapPut(flat, e.filepath, ModifiedEntry(flat[e.filepath], e))
                ELSE flat,
                Tail(entries))

ApplyTo(flat, entries) ==
    ApplyModifications(ApplyAdditions(ApplyDeletions(flat, entries), entries),
                       entries)

\* ori_priv::getTreeEntry past the cache and the empty-repo case: the walk
\* down the components of the path
RECURSIVE WalkTree(_, _, _, _)
WalkTree(t, components, isTree, te) ==
    IF components = << >> THEN [found |-> TRUE, te |-> te]
    ELSE IF ~isTree THEN [found |-> FALSE, te |-> NullEntry]
    ELSE IF Head(components) \notin DOMAIN t
    THEN [found |-> FALSE, te |-> NullEntry]
    ELSE LET e == t[Head(components)]
         IN IF e.type = "Tree"
            THEN WalkTree(FromBlob(e.hash), Tail(components), TRUE, e)
            ELSE WalkTree(t, Tail(components), FALSE, e)

\* ori_priv::getTreeEntry: [found, te, teCache]
GetTreeEntry(cache, root, path) ==
    IF path \in DOMAIN cache
    THEN [found |-> TRUE, te |-> cache[path], teCache |-> cache]
    ELSE IF DOMAIN root = {}
    THEN [found |-> FALSE, te |-> NullEntry, teCache |-> cache]
    ELSE LET w == WalkTree(root, Util_PathToVector(path), TRUE, NullEntry)
         IN [found |-> w.found, te |-> w.te,
             teCache |-> IF w.found THEN MapPut(cache, path, w.te) ELSE cache]

NoEte == [te |-> NullEntry, changedData |-> FALSE, tde |-> NoTde]

\* changedData set for every diff entry
ChangedDataAlways(tde) == TRUE

\* line 285: the diff entry names a file with the new contents
ChangedData(tde) == tde.newFilename # ""

\* ori_priv::getETE after the cache miss, given what getTreeEntry returned:
\* [found, ete]
ResolveETE(hasTE, te, diff, path) ==
    LET hasTde == HasLatestEntry(diff, path)
        tde == GetLatestEntry(diff, path)
    IN IF ~hasTE /\ ~hasTde THEN [found |-> FALSE, ete |-> NoEte]
       ELSE IF hasTde /\ IsDeleted(tde) THEN [found |-> FALSE, ete |-> NoEte]
       ELSE LET te1 == IF hasTde
                       THEN [te EXCEPT !.type = IF tde.type = "NewDir"
                                                THEN "Tree" ELSE @,
                                       !.attrs = MergeFrom(@, tde.newAttrs)]
                       ELSE te
                ete == [te |-> te1,
                        changedData |-> hasTde /\ ChangedData(tde),
                        tde |-> tde]
            IN IF ~HasBasicAttrs(te1) THEN [found |-> FALSE, ete |-> NoEte]
               ELSE [found |-> TRUE, ete |-> ete]

\* ori_priv::computeNLink from line 367 on: the loop over the children of
\* the directory and the loop over the entries of the diff
RECURSIVE CountNewDirs(_, _)
CountNewDirs(entries, under) ==
    IF entries = << >> THEN 0
    ELSE (IF Head(entries).filepath \in under /\ Head(entries).type = "NewDir"
          THEN 1 ELSE 0) + CountNewDirs(Tail(entries), under)

\* extPath + name
ChildPath(path, name) ==
    IF path = RootPath /\ name = "d" THEN DirPath
    ELSE IF path = DirPath /\ name = "x" THEN LeafPath
    ELSE "?"

ChildPaths(path) ==
    IF path = RootPath THEN {DirPath}
    ELSE IF path = DirPath THEN {LeafPath}
    ELSE {}

CountLinks(path, t, diff) ==
    (IF path = RootPath THEN 4 ELSE 2)
    + Cardinality({n \in DOMAIN t :
          /\ t[n].type = "Tree"
          /\ ~(diff.live /\ IsDeleted(GetLatestEntry(diff, ChildPath(path, n))))})
    + (IF diff.live THEN CountNewDirs(diff.entries, ChildPaths(path)) ELSE 0)

\* RWLock: readers share, a writer excludes readers and writers
NoThread == 0
FreeLock == [writer |-> NoThread, readers |-> {}]
CanReadLock == lock_repo.writer = NoThread
CanWriteLock == lock_repo.writer = NoThread /\ lock_repo.readers = {}
HoldsLock(t) == lock_repo.writer = t \/ t \in lock_repo.readers
HoldsWriteLock(t) == lock_repo.writer = t

NoResult == [call |-> "", status |-> "", ete |-> NoEte, value |-> 0]

IdleThread ==
    [pc |-> "idle", path |-> "", ret |-> "", t |-> EmptyMap, newTree |-> 0,
     commitHash |-> 0, result |-> NoResult]

Returned(call, status, ete, value) ==
    [call |-> call, status |-> status, ete |-> ete, value |-> value]

\* The thread is back at its caller, with or without the write key
BackWith(at, result) == [IdleThread EXCEPT !.pc = at, !.result = result]

\* currTempDir: no temp directory, and the directory repo->newTempDir()
\* makes.  currTempDir is reset only by a commit, so the number of commits
\* made so far tells the directories apart.
NoTempDir == 0
NewTempDir(n) == n + 1

\* fuseCommit, line 482: the temp directory is let go
ResetsTempDirAlways(anyOpen) == TRUE
ResetsTempDir(anyOpen) == ~anyOpen

\* An order of the steps in which the diff goes before the head is reset
FcNextDiscardFirst(step) ==
    IF step = "fc_apply" THEN "fc_commit"
    ELSE IF step = "fc_commit" THEN "fc_discard"
    ELSE IF step = "fc_discard" THEN "fc_reset"
    ELSE IF step = "fc_reset" THEN "fc_load"
    ELSE "holding"

\* The order of the steps of fuseCommit with a diff to commit
FcNext(step) ==
    IF step = "fc_apply" THEN "fc_commit"
    ELSE IF step = "fc_commit" THEN "fc_reset"
    ELSE IF step = "fc_reset" THEN "fc_load"
    ELSE IF step = "fc_load" THEN "fc_discard"
    ELSE "holding"

InitFuse(threads, leaves) ==
    /\ \E leaf \in leaves :
          LET flat == IF leaf = NullEntry
                      THEN MapPut(EmptyMap, DirPath,
                                  [type |-> "Tree", hash |-> 0, attrs |-> 1])
                      ELSE MapPut(MapPut(EmptyMap, DirPath,
                                  [type |-> "Tree", hash |-> 0, attrs |-> 1]),
                                  LeafPath, leaf)
              root == RootOfFlat(flat)
          IN /\ headtree = root
             /\ head = [hash |-> CommitHash(TreeHash(root), 0),
                        tree |-> TreeHash(root)]
             /\ repoObjects = {CommitHash(TreeHash(root), 0), TreeHash(root),
                               TreeHash(DirOfFlat(flat))}
    /\ nCommits = 0
    /\ currTreeDiff = NullDiff
    /\ currTempDir = NoTempDir
    /\ anyFilesOpen = FALSE
    /\ eteCache = EmptyMap
    /\ teCache = EmptyMap
    /\ nlinkCache = EmptyMap
    /\ lock_repo = FreeLock
    /\ th = [t \in threads |-> IdleThread]

\* The head trees a run starts from: /d empty, /d/x a file, /d/x a directory
FirstLeaves ==
    { NullEntry,
      [type |-> "Blob", hash |-> HeadContent, attrs |-> 1],
      [type |-> "Tree", hash |-> EmptyTreeHash, attrs |-> 1] }

\* Where a thread goes when the getETE it called returns; the entry itself
\* is kept for computeNLink only, a FUSE operation finds it in eteCache
AfterGetETE(t, found, ete) ==
    IF th[t].ret = "nlink"
    THEN [th[t] EXCEPT !.pc = "nlink_tree",
                       !.result = Returned("getETE",
                                           IF found THEN "found" ELSE "not found",
                                           ete, 0)]
    ELSE BackWith("idle", Returned("getETE",
                                   IF found THEN "found" ELSE "not found",
                                   NoEte, 0))

\* ori_priv::getETE, line 260: the lookup in eteCache.  ret tells whether
\* the FUSE operation calls it ("top") or computeNLink does ("nlink",
\* line 360).
GetETELookup(t, path, ret) ==
    /\ th[t].pc = "idle"
    /\ IF path \in DOMAIN eteCache
       THEN th' = [th EXCEPT ![t] =
                     IF ret = "nlink"
                     THEN [IdleThread EXCEPT
                              !.pc = "nlink_tree", !.path = path, !.ret = ret,
                              !.result = Returned("getETE", "found",
                                                  eteCache[path], 0)]
                     ELSE BackWith("idle", Returned("getETE", "found",
                                                    NoEte, 0))]
       ELSE th' = [th EXCEPT ![t] =
                     [IdleThread EXCEPT !.pc = "ete_lock", !.path = path,
                                        !.ret = ret]]
    /\ UNCHANGED <<head, headtree, repoObjects, nCommits, currTreeDiff,
                   currTempDir, anyFilesOpen, eteCache, teCache, nlinkCache,
                   lock_repo>>
    /\ UNCHANGED notFuse

\* line 264: lock_repo.readLock()
GetETELock(t) ==
    /\ th[t].pc = "ete_lock"
    /\ CanReadLock
    /\ lock_repo' = [lock_repo EXCEPT !.readers = @ \cup {t}]
    /\ th' = [th EXCEPT ![t].pc = "ete_resolve"]
    /\ UNCHANGED <<head, headtree, repoObjects, nCommits, currTreeDiff,
                   currTempDir, anyFilesOpen, eteCache, teCache, nlinkCache>>
    /\ UNCHANGED notFuse

\* lines 266-299: getTreeEntry, getLatestEntry, the overlay, eteCache.put;
\* the key goes when the function returns
GetETEResolve(t) ==
    /\ th[t].pc = "ete_resolve"
    /\ LET path == th[t].path
           r == GetTreeEntry(teCache, headtree, path)
           e == ResolveETE(r.found, r.te, currTreeDiff, path)
       IN /\ teCache' = r.teCache
          /\ eteCache' = IF e.found THEN MapPut(eteCache, path, e.ete)
                         ELSE eteCache
          /\ th' = [th EXCEPT ![t] =
                       [AfterGetETE(t, e.found, e.ete) EXCEPT
                           !.path = IF th[t].ret = "nlink" THEN path ELSE "",
                           !.ret = IF th[t].ret = "nlink" THEN "nlink" ELSE ""]]
    /\ lock_repo' = [lock_repo EXCEPT !.readers = @ \ {t}]
    /\ UNCHANGED <<head, headtree, repoObjects, nCommits, currTreeDiff,
                   currTempDir, anyFilesOpen, nlinkCache>>
    /\ UNCHANGED notFuse

\* ori_priv::computeNLink("/"), lines 309-311: t = *headtree
ComputeNLinkRoot(t) ==
    /\ th[t].pc = "idle"
    /\ th' = [th EXCEPT ![t] =
                 [IdleThread EXCEPT !.pc = "nlink_lock", !.path = RootPath,
                                    !.t = headtree]]
    /\ UNCHANGED <<head, headtree, repoObjects, nCommits, currTreeDiff,
                   currTempDir, anyFilesOpen, eteCache, teCache, nlinkCache,
                   lock_repo>>
    /\ UNCHANGED notFuse

\* lines 361-364, after getETE returned: 0 when the path is not there, an
\* exception when it is no directory, else t = getTree(ete.te.hash).  The
\* entry of a directory that only the diff holds has the empty hash, and
\* what getPayload does with it is not in this code: emptyHashThrows picks
\* between an exception and an empty tree.
ComputeNLinkTree(t, emptyHashThrows) ==
    /\ th[t].pc = "nlink_tree"
    /\ LET r == th[t].result
       IN th' = [th EXCEPT ![t] =
              IF r.status # "found"
              THEN BackWith("idle", Returned("computeNLink", "returned", NoEte, 0))
              ELSE IF r.ete.te.type # "Tree"
              THEN BackWith("idle", Returned("computeNLink", "throw", NoEte, 0))
              ELSE IF r.ete.te.hash \notin repoObjects
              THEN IF emptyHashThrows
                   THEN BackWith("idle",
                                 Returned("computeNLink", "throw", NoEte, 0))
                   ELSE [IdleThread EXCEPT !.pc = "nlink_lock",
                                           !.path = th[t].path, !.t = EmptyMap]
              ELSE [IdleThread EXCEPT !.pc = "nlink_lock", !.path = th[t].path,
                                      !.t = FromBlob(r.ete.te.hash)]]
    /\ UNCHANGED <<head, headtree, repoObjects, nCommits, currTreeDiff,
                   currTempDir, anyFilesOpen, eteCache, teCache, nlinkCache,
                   lock_repo>>
    /\ UNCHANGED notFuse

\* line 371: lock_repo.readLock()
ComputeNLinkLock(t) ==
    /\ th[t].pc = "nlink_lock"
    /\ CanReadLock
    /\ lock_repo' = [lock_repo EXCEPT !.readers = @ \cup {t}]
    /\ th' = [th EXCEPT ![t].pc = "nlink_count"]
    /\ UNCHANGED <<head, headtree, repoObjects, nCommits, currTreeDiff,
                   currTempDir, anyFilesOpen, eteCache, teCache, nlinkCache>>
    /\ UNCHANGED notFuse

\* lines 373-411: the two loops and nlinkCache.put
ComputeNLinkCount(t) ==
    /\ th[t].pc = "nlink_count"
    /\ LET total == CountLinks(th[t].path, th[t].t, currTreeDiff)
       IN /\ nlinkCache' = MapPut(nlinkCache, th[t].path, total)
          /\ th' = [th EXCEPT ![t] =
                       BackWith("idle", Returned("computeNLink", "returned",
                                                 NoEte, total))]
    /\ lock_repo' = [lock_repo EXCEPT !.readers = @ \ {t}]
    /\ UNCHANGED <<head, headtree, repoObjects, nCommits, currTreeDiff,
                   currTempDir, anyFilesOpen, eteCache, teCache>>
    /\ UNCHANGED notFuse

\* ori_priv::startWrite, without a key (the thread takes the write lock) or
\* with the key the thread holds
StartWrite(t) ==
    /\ \/ th[t].pc = "idle" /\ CanWriteLock
       \/ th[t].pc = "holding"
    /\ lock_repo' = [lock_repo EXCEPT !.writer = t]
    /\ currTreeDiff' = IF currTreeDiff.live THEN currTreeDiff ELSE NewTreeDiff
    /\ currTempDir' = IF currTempDir = NoTempDir THEN NewTempDir(nCommits)
                      ELSE currTempDir
    /\ th' = [th EXCEPT ![t] =
                 BackWith("holding", Returned("startWrite", "returned", NoEte, 0))]
    /\ UNCHANGED <<head, headtree, repoObjects, nCommits, anyFilesOpen,
                   eteCache, teCache, nlinkCache>>
    /\ UNCHANGED notFuse

\* What the mount shows at a path: getETE with empty caches
UncachedETE(path) ==
    LET r == GetTreeEntry(EmptyMap, headtree, path)
    IN ResolveETE(r.found, r.te, currTreeDiff, path)

\* The entries a FUSE operation can come with, given what the mount shows:
\* create and mkdir where nothing is, unlink, write and chmod on a file,
\* rmdir on a directory
TdeFits(tde) ==
    LET now == UncachedETE(tde.filepath)
    IN IF tde.type \in {"NewFile", "NewDir"} THEN ~now.found
       ELSE IF tde.type = "DeletedDir"
       THEN now.found /\ now.ete.te.type = "Tree"
       ELSE now.found /\ now.ete.te.type # "Tree"

\* A mergeAndCommit that never goes on into fuseCommit
NeedsCommitNever(grew) == FALSE

\* lines 449-450: needs_commit is what the merge returned
NeedsCommit(grew) == grew

\* ori_priv::mergeAndCommit without a key: line 437
MergeAndCommitNoKey(t, tde) ==
    /\ th[t].pc = "idle"
    /\ th' = [th EXCEPT ![t] =
                 BackWith("idle", Returned("mergeAndCommit",
                          "throw: mergeAndCommit needs a locked repo", NoEte, 0))]
    /\ UNCHANGED <<head, headtree, repoObjects, nCommits, currTreeDiff,
                   currTempDir, anyFilesOpen, eteCache, teCache, nlinkCache,
                   lock_repo>>
    /\ UNCHANGED notFuse

\* line 441: mergeAndCommit finds that startWrite has not been called
StartWriteMissingBoth(diff, dir) == ~diff.live /\ dir = NoTempDir
StartWriteMissing(diff, dir) == ~diff.live \/ dir = NoTempDir

\* ori_priv::mergeAndCommit with the key, lines 441-455; when the merge
\* asks for a new layer the thread goes on into fuseCommit
MergeAndCommit(t, tde) ==
    /\ th[t].pc = "holding"
    /\ IF StartWriteMissing(currTreeDiff, currTempDir)
       THEN /\ th' = [th EXCEPT ![t] =
                         BackWith("holding", Returned("mergeAndCommit",
                             "throw: Call startWrite before calling mergeAndCommit",
                             NoEte, 0))]
            /\ UNCHANGED <<currTreeDiff, eteCache, nlinkCache>>
       ELSE /\ TdeFits(tde)
            /\ MergeDefined(GetLatestEntry(currTreeDiff, tde.filepath), tde)
            /\ Len(currTreeDiff.entries) < MaxEntries
            /\ LET m == Merge(currTreeDiff, tde)
               IN /\ m.grew => nCommits < MaxCommits
                  /\ currTreeDiff' = m.diff
                  /\ th' = [th EXCEPT ![t] =
                        IF NeedsCommit(m.grew)
                        THEN [IdleThread EXCEPT !.pc = "fc_apply",
                                                !.ret = "mergeAndCommit"]
                        ELSE BackWith("holding",
                                 Returned("mergeAndCommit", "false", NoEte, 0))]
            /\ nlinkCache' = MapRemove(MapRemove(nlinkCache, tde.filepath),
                                       StrUtil_Basename(tde.filepath))
            /\ eteCache' = MapRemove(eteCache, tde.filepath)
    /\ UNCHANGED <<head, headtree, repoObjects, nCommits, currTempDir,
                   anyFilesOpen, teCache, lock_repo>>
    /\ UNCHANGED notFuse

\* ori_priv::fuseCommit called by a FUSE operation, lines 461-464 and
\* 490-494: without a key the thread takes the write lock; with no diff
\* there is nothing to commit
FuseCommit(t) ==
    /\ \/ th[t].pc = "idle" /\ CanWriteLock
       \/ th[t].pc = "holding"
    /\ currTreeDiff.live => nCommits < MaxCommits
    /\ lock_repo' = [lock_repo EXCEPT !.writer = t]
    /\ th' = [th EXCEPT ![t] =
                 IF currTreeDiff.live
                 THEN [IdleThread EXCEPT !.pc = "fc_apply", !.ret = "fuseCommit"]
                 ELSE BackWith("holding", Returned("fuseCommit",
                                           "nothing to commit", NoEte, 0))]
    /\ UNCHANGED <<head, headtree, repoObjects, nCommits, currTreeDiff,
                   currTempDir, anyFilesOpen, eteCache, teCache, nlinkCache>>
    /\ UNCHANGED notFuse

\* lines 467-468: new_tree = currTreeDiff->applyTo(headtree->flattened(repo),
\* currTempDir); the new tree objects are in the temp directory
FcApplyTo(t) ==
    /\ th[t].pc = "fc_apply"
    /\ LET flat == ApplyTo(Flattened(headtree), currTreeDiff.entries)
           new_tree == RootOfFlat(flat)
       IN /\ repoObjects' = repoObjects \cup {TreeHash(new_tree),
                                              TreeHash(DirOfFlat(flat))}
          /\ th' = [th EXCEPT ![t].pc = FcNext("fc_apply"),
                              ![t].newTree = TreeHash(new_tree)]
    /\ UNCHANGED <<head, headtree, nCommits, currTreeDiff, currTempDir,
                   anyFilesOpen, eteCache, teCache, nlinkCache, lock_repo>>
    /\ UNCHANGED notFuse

\* lines 470-473: commitHash = repo->commitFromObjects(new_tree.hash(), ...)
FcCommitFromObjects(t) ==
    /\ th[t].pc = "fc_commit"
    /\ LET commitHash == CommitHash(th[t].newTree, nCommits + 1)
       IN /\ repoObjects' = repoObjects \cup {commitHash}
          /\ th' = [th EXCEPT ![t].pc = FcNext("fc_commit"),
                              ![t].commitHash = commitHash]
    /\ nCommits' = nCommits + 1
    /\ UNCHANGED <<head, headtree, currTreeDiff, currTempDir, anyFilesOpen,
                   eteCache, teCache, nlinkCache, lock_repo>>
    /\ UNCHANGED notFuse

\* _resetHead(commitHash), lines 129-138: *head = repo->getCommit(chash) and
\* *headtree = Tree()
FcResetHead(t) ==
    /\ th[t].pc = "fc_reset"
    /\ head' = [hash |-> th[t].commitHash, tree |-> th[t].commitHash % 1000]
    /\ headtree' = EmptyMap
    /\ th' = [th EXCEPT ![t].pc = FcNext("fc_reset")]
    /\ UNCHANGED <<repoObjects, nCommits, currTreeDiff, currTempDir,
                   anyFilesOpen, eteCache, teCache, nlinkCache, lock_repo>>
    /\ UNCHANGED notFuse

\* _resetHead, lines 139-140: headtree->fromBlob(repo->getPayload(tree))
FcLoadHeadTree(t) ==
    /\ th[t].pc = "fc_load"
    /\ headtree' = FromBlob(head.tree)
    /\ th' = [th EXCEPT ![t].pc = FcNext("fc_load")]
    /\ UNCHANGED <<head, repoObjects, nCommits, currTreeDiff, currTempDir,
                   anyFilesOpen, eteCache, teCache, nlinkCache, lock_repo>>
    /\ UNCHANGED notFuse

\* lines 478-488: the diff is deleted, the temp directory is let go when no
\* file is open, eteCache and teCache are cleared; then fuseCommit returns
\* the key, and mergeAndCommit returns true
FcDiscard(t) ==
    /\ th[t].pc = "fc_discard"
    /\ currTreeDiff' = NullDiff
    /\ currTempDir' = IF ResetsTempDir(anyFilesOpen) THEN NoTempDir
                      ELSE currTempDir
    /\ eteCache' = EmptyMap
    /\ teCache' = EmptyMap
    /\ th' = [th EXCEPT ![t] =
                 BackWith(FcNext("fc_discard"),
                     [Returned(th[t].ret,
                          IF th[t].ret = "mergeAndCommit" THEN "true"
                          ELSE "committed", NoEte, 0)
                      EXCEPT !.value = th[t].commitHash])]
    /\ UNCHANGED <<head, headtree, repoObjects, nCommits, anyFilesOpen,
                   nlinkCache, lock_repo>>
    /\ UNCHANGED notFuse

\* The FUSE operation ends and its RWKey goes
ReleaseKey(t) ==
    /\ th[t].pc = "holding"
    /\ lock_repo' = [lock_repo EXCEPT !.writer = NoThread]
    /\ th' = [th EXCEPT ![t] = IdleThread]
    /\ UNCHANGED <<head, headtree, repoObjects, nCommits, currTreeDiff,
                   currTempDir, anyFilesOpen, eteCache, teCache, nlinkCache>>
    /\ UNCHANGED notFuse

\* A file of the temp directory is opened, or the last open file is closed
\* (openedFiles)
OpenFile ==
    /\ currTempDir # NoTempDir
    /\ ~anyFilesOpen
    /\ anyFilesOpen' = TRUE
    /\ UNCHANGED <<head, headtree, repoObjects, nCommits, currTreeDiff,
                   currTempDir, eteCache, teCache, nlinkCache, lock_repo, th>>
    /\ UNCHANGED notFuse

CloseFile ==
    /\ anyFilesOpen
    /\ anyFilesOpen' = FALSE
    /\ UNCHANGED <<head, headtree, repoObjects, nCommits, currTreeDiff,
                   currTempDir, eteCache, teCache, nlinkCache, lock_repo, th>>
    /\ UNCHANGED notFuse

\* getattr and readdir: getETE and computeNLink
ReaderSteps(t) ==
    \/ \E path \in FusePaths : GetETELookup(t, path, "top")
    \/ \E path \in FusePaths : GetETELookup(t, path, "nlink")
    \/ GetETELock(t)
    \/ GetETEResolve(t)
    \/ ComputeNLinkRoot(t)
    \/ \E b \in BOOLEAN : ComputeNLinkTree(t, b)
    \/ ComputeNLinkLock(t)
    \/ ComputeNLinkCount(t)

\* create, mkdir, unlink, rmdir, write and the commit
WriterSteps(t) ==
    \/ StartWrite(t)
    \/ \E tde \in TdeInputs : MergeAndCommit(t, tde)
    \/ FuseCommit(t)
    \/ FcApplyTo(t)
    \/ FcCommitFromObjects(t)
    \/ FcResetHead(t)
    \/ FcLoadHeadTree(t)
    \/ FcDiscard(t)
    \/ ReleaseKey(t)

FuseThreadSteps(t) ==
    \/ ReaderSteps(t)
    \/ WriterSteps(t)
    \/ \E tde \in TdeInputs : MergeAndCommitNoKey(t, tde)

\* Two threads on one mount: thread 1 changes the tree, thread 2 looks at it
NextRace ==
    \/ WriterSteps(1)
    \/ ReaderSteps(2)

\* One mount, one thread, no file held open
NextFuse == FuseThreadSteps(1)

\* One thread that writes and commits while files of the temp directory
\* are opened and closed
NextTemp ==
    \/ WriterSteps(1)
    \/ \E tde \in TdeInputs : MergeAndCommitNoKey(1, tde)
    \/ OpenFile
    \/ CloseFile


\* One pack and its transactions
NextTr ==
    \/ PkBegin(0)
    \/ \E h \in PkHashes : PkAddPayload(h)
    \/ PkCommit
    \/ PkRelease
    \/ PkReleaseCommitted
    \/ CommitSteps

InitTr == InitMd /\ InitPk(BOOLEAN) /\ InitMgr({{}}) /\ InitFuse({1}, {NullEntry})

SpecTr == InitTr /\ [][NextTr]_vars

\* One pack, its transactions and purge
NextPack ==
    \/ PkBegin(0)
    \/ \E h \in PkHashes : PkAddPayload(h)
    \/ PkCommit
    \/ PkRelease
    \/ PkReleaseCommitted
    \/ \E hset \in SUBSET PkHashes : PkPurgeRead(0, hset)
    \/ PkPurgeSwap
    \/ PkPurgeCommit
    \/ CommitSteps

InitPack == InitMd /\ InitPk(BOOLEAN) /\ InitMgr({{}}) /\ InitFuse({1}, {NullEntry})

SpecPack == InitPack /\ [][NextPack]_vars

\* The same steps on a pack that an earlier run has filled
InitStored ==
    InitMd /\ InitPkStored({TRUE}, StoredPacks) /\ InitMgr({{}}) /\ InitFuse({1}, {NullEntry})

SpecStored == InitStored /\ [][NextPack]_vars

\* A source pack filled by transactions, transmit from it, receive on a
\* second pack
NextXfer ==
    \/ PkBegin(0)
    \/ \E h \in PkHashes : PkAddPayload(h)
    \/ PkCommit
    \/ PkRelease
    \/ PkReleaseCommitted
    \/ CommitSteps
    \/ \E S \in SUBSET EntriesOf(0) : PkReceiveTable(0, S, 1)
    \/ PkReceiveHeaders
    \/ PkReceivePayload
    \/ PkReceiveDone

InitXfer == InitMd /\ InitPk(BOOLEAN) /\ InitMgr({{}}) /\ InitFuse({1}, {NullEntry})

SpecXfer == InitXfer /\ [][NextXfer]_vars

\* Two packs: transactions on the first, and each pack receives what
\* transmit sends from the other
NextGroups ==
    \/ PkBegin(0)
    \/ \E h \in PkHashes : PkAddPayload(h)
    \/ PkCommit
    \/ PkRelease
    \/ PkReleaseCommitted
    \/ CommitSteps
    \/ \E S \in SUBSET EntriesOf(0) : PkReceiveTable(0, S, 1)
    \/ \E S \in SUBSET EntriesOf(1) : PkReceiveTable(1, S, 0)
    \/ PkReceiveHeaders
    \/ PkReceivePayload
    \/ PkReceiveDone

InitGroups == InitMd /\ InitPk(BOOLEAN) /\ InitMgr({{}}) /\ InitFuse({1}, {NullEntry})

SpecGroups == InitGroups /\ [][NextGroups]_vars

\* The metadata log alone
InitMdLog == InitMd /\ InitPk({FALSE}) /\ InitMgr({{}}) /\ InitFuse({1}, {NullEntry})

SpecMd == InitMdLog /\ [][NextMd]_vars

\* The metadata log with crashes inside commit
InitMdAnyHash == InitMd /\ InitPk({FALSE}) /\ InitMgr({{}}) /\ InitFuse({1}, {NullEntry})

SpecMdAnyHash == InitMdAnyHash /\ [][NextMdAnyHash]_vars

SpecMdCrash == InitMdLog /\ [][NextMdCrash]_vars

\* The packfile manager alone
InitManager == InitMd /\ InitPk({FALSE}) /\ InitMgr(MgrDirs) /\ InitFuse({1}, {NullEntry})

SpecMgr == InitManager /\ [][NextMgr]_vars

\* One manager over a directory that holds packs 0..MaxPackId-2, and the
\* callers of newPackfile and getPackfile
NextCache ==
    \/ MgrConstruct
    \/ NewPackfile
    \/ \E id \in 0..MaxPackId, evict \in (0..MaxPackId) \cup {NoEvict} :
           GetPackfile(id, evict)
    \/ \E o \in pfHeld : DropPackfile(o)
    \/ MgrTeardown

InitCache == InitMd /\ InitPk({FALSE}) /\ InitMgr({0..(MaxPackId - 2)}) /\ InitFuse({1}, {NullEntry})

SpecCache == InitCache /\ [][NextCache]_vars

\* One thread on one mount over each of the first head trees
InitFuseMount ==
    InitMd /\ InitPk({FALSE}) /\ InitMgr({{}}) /\ InitFuse({1}, FirstLeaves)

SpecFuse == InitFuseMount /\ [][NextFuse]_vars

InitTemp == InitMd /\ InitPk({FALSE}) /\ InitMgr({{}}) /\ InitFuse({1}, FirstLeaves)

SpecTemp == InitTemp /\ [][NextTemp]_vars

InitRace ==
    InitMd /\ InitPk({FALSE}) /\ InitMgr({{}}) /\ InitFuse({1, 2}, {NullEntry})

SpecRace == InitRace /\ [][NextRace]_vars

\* ------------------------------------------------------------------------
\* Claims on the metadata log
\* ------------------------------------------------------------------------

\* The (hash, count) pairs of the first entry of a log file
MdFirstEntryPairs(f) ==
    { <<f[2 * i].v, f[2 * i + 1].v>> : i \in 1..((Len(f) - 1) \div 2) }

MapPairs(m) == { <<h, m[h]>> : h \in DOMAIN m }

\* C1: log recovery round trip.  In every state reached by commits and
\* rewrites, reading the file the way open does succeeds and yields exactly
\* the in-memory map (the map the log object holds, or held when it was
\* closed): closing and reopening rebuilds it hash for hash.
LogRecoveryRoundTrip ==
    /\ mdState # "failed"
    /\ LET r == MdReadLog(mdFile, 1, 0, EmptyMap)
       IN r.ok /\ r.map = refcounts

\* C1 witness: a log reopened after a rewrite followed by a further commit,
\* holding a count that no single delta equals.
LogRecoveryWitness ==
    /\ mdState = "open" /\ mdLast = "open"
    /\ mdRewritten
    /\ Len(mdFile) > 1 + 2 * Cardinality(DOMAIN refcounts)
    /\ \E h \in DOMAIN refcounts : refcounts[h] = 2

\* What C2 says of one rewrite step: one entry, equal to the old map.
RewriteLeavesOneEntry ==
    /\ mdFile' # << >>
    /\ mdFile'[1].v = Cardinality(DOMAIN refcounts)
    /\ Len(mdFile') = 1 + 2 * mdFile'[1].v
    /\ MdFirstEntryPairs(mdFile') = MapPairs(refcounts)

\* C2 as stated: after rewrite() the file holds exactly one entry, equal
\* to the pre-rewrite map, and the in-memory map equals the pre-rewrite map,
\* for every pre-rewrite map.
RewriteOneEntryAlways ==
    [][MdRewrite => (RewriteLeavesOneEntry /\ refcounts' = refcounts)]_vars

\* C2 amended: after rewrite() the in-memory map equals the pre-rewrite
\* map; when that map is not empty the file holds exactly one entry whose
\* pairs equal it, and when it is empty the file is empty (it holds no entry).
RewriteOneEntryUnlessEmpty ==
    [][MdRewrite =>
        /\ refcounts' = refcounts
        /\ IF refcounts = EmptyMap THEN mdFile' = << >>
                                   ELSE RewriteLeavesOneEntry]_vars

\* C2 witness: the state after a rewrite of a map with two hashes, one of
\* them at count 0.
RewriteWitness ==
    /\ mdLast = "rewrite"
    /\ Cardinality(DOMAIN refcounts) = 2
    /\ \E h \in DOMAIN refcounts : refcounts[h] = 0
    /\ Len(mdFile) = 5

\* C12: committing or releasing a metadata transaction whose delta map is
\* empty is a no-op: the log file and the in-memory map are unchanged.
EmptyTransactionNoop ==
    [][((MdCommit \/ MdRelease) /\ mdTr.counts = EmptyMap) =>
          (mdFile' = mdFile /\ refcounts' = refcounts)]_vars

\* An empty transaction has just been committed on a log that holds entries
EmptyTransactionWitness ==
    /\ mdLast = "commit of nothing"
    /\ mdState = "open"
    /\ mdFile # << >>
    /\ refcounts # EmptyMap

\* The cells from position pos on are complete entries: a count and then
\* count (hash, refcount) pairs
RECURSIVE MdComplete(_, _)
MdComplete(f, pos) ==
    IF pos > Len(f) THEN TRUE
    ELSE /\ f[pos].k = "num"
         /\ pos + 2 * f[pos].v <= Len(f)
         /\ \A i \in 1..f[pos].v :
               f[pos + 2 * i - 1].k = "hash" /\ f[pos + 2 * i].k = "cnt"
         /\ MdComplete(f, pos + 2 * f[pos].v + 1)

\* C13: when a crash inside commit left a last entry whose count field is
\* written but not all of its pairs, the next open fails; a log made of
\* complete entries only opens successfully.
TornTailDetected ==
    mdLast = "open" =>
        (mdState = "open" <=> MdComplete(mdFile, 1))

\* open has failed on a log that holds a complete entry and then a count
\* of 2 with one and a half pairs
TornTailWitness ==
    /\ mdLast = "open" /\ mdState = "failed"
    /\ Len(mdFile) = 7
    /\ mdFile[1].v = 1
    /\ mdFile[4].k = "num" /\ mdFile[4].v = 2

\* ------------------------------------------------------------------------
\* Claims on the pack file
\* ------------------------------------------------------------------------

\* C3: every object added to a transaction and committed, in any sequence
\* of transactions on one pack, is read back through its index entry as
\* exactly the bytes that were added, with or without compression.
PackRoundTrip ==
    \A h \in added : h \in DOMAIN index /\ Lookup(h) = PayloadOf(h)

\* A compressed object and a plain one, committed by two transactions
PackRoundTripWitness ==
    /\ pc = "idle"
    /\ added = {2, 3}
    /\ index[3].info.compressed /\ index[3].packed_size < Len(PayloadOf(3))
    /\ index[2].offset > index[3].offset + index[3].packed_size
    /\ Lookup(3) = <<7, 7, 7>>

\* C4: in every reachable state, the states between the writes of commit,
\* receive and purge included, every index entry lies within the current
\* size of its pack file.
IndexWithinFile ==
    \A h \in DOMAIN index :
        index[h].offset + index[h].packed_size
            <= FileBytes(file[index[h].packfile])

\* C5: after purge(H) has returned, no hash of H that was stored in the
\* pack has an index entry that resolves to this pack.
PurgedUnreachable ==
    (pc = "idle" /\ cur.op = "purge") =>
        \A i \in 1..Len(cur.before) :
            LET h == cur.before[i].info.hash
            IN h \in cur.hset =>
                  ~(h \in DOMAIN index /\ index[h].packfile = cur.pf)

\* The stored payload of a pack object, decoded as getPayload decodes it
Decoded(o) == IF o.info.compressed THEN Unzip(o.data) ELSE o.data

\* C6: after purge(H) the pack holds exactly the objects whose hash is not
\* in H, in their original order, each read back through its index entry
\* with the bytes it had before, the header offsets are the positions of
\* the payloads in the new file, and purge returns true iff no object
\* survives.
PurgeKeepsTheRest ==
    (pc = "idle" /\ cur.op = "purge") =>
        LET kept == PurgeKept(cur.before, cur.hset)
            now == ReadGroups(file[cur.pf], 1, 0)
        IN /\ Len(now) = Len(kept)
           /\ \A i \in 1..Len(kept) :
                 /\ now[i].info = kept[i].info
                 /\ now[i].data = kept[i].data
                 /\ now[i].off = now[i].pos
                 /\ now[i].info.hash \in DOMAIN index
                 /\ Lookup(now[i].info.hash) = Decoded(kept[i])
           /\ cur.ret = (kept = << >>)

GroupSizes ==
    [j \in 1..Len(cur.infos) |->
        IF pc = "commitPayload" THEN Len(cur.payloads[j]) ELSE cur.payloads[j]]

\* Payload bytes of that group that are not in the file yet
GroupBytesUnwritten ==
    CASE pc = "commitPayload" \/ pc = "receiveData" ->
             SumSeq([j \in 1..(Len(cur.infos) - cur.i + 1) |->
                        GroupSizes[cur.i + j - 1]])
      [] pc = "receiveHeaders" -> SumSeq(GroupSizes)
      [] OTHER -> 0

\* C14: in commit and in receive no index entry of a group exists while a
\* payload byte of that group is still unwritten.
IndexAfterPayloads ==
    GroupBytesUnwritten > 0 =>
        \A j \in 1..Len(cur.infos) :
            LET h == cur.infos[j].hash
            IN ~(/\ h \in DOMAIN index
                 /\ index[h] = IndexEntry(cur.infos[j], cur.offsets[j],
                                          GroupSizes[j], cur.pf))

\* ------------------------------------------------------------------------
\* Claims on the packfile manager
\* ------------------------------------------------------------------------

Last(q) == q[Len(q)]

\* C7: in every state of a manager, after construction (list loaded or
\* recomputed) and after any number of newPackfile calls, freeList is
\* non-empty, strictly increasing, and its last element is greater than
\* every existing pack id.
FreeListInvariant ==
    mgrUp =>
        /\ freeList # << >>
        /\ \A i \in 1..(Len(freeList) - 1) : freeList[i] < freeList[i + 1]
        /\ \A id \in packsOnDisk : Last(freeList) > id

\* The k-th smallest id that is not in E
RECURSIVE NthFree(_, _, _)
NthFree(E, k, from) ==
    IF from \in E THEN NthFree(E, k, from + 1)
    ELSE IF k = 1 THEN from ELSE NthFree(E, k - 1, from + 1)

\* C8: in a manager whose free list was recomputed from a directory holding
\* the packs E, successive newPackfile calls return the ids of
\* {0..max(E)} \ E in increasing order and then max(E)+1, max(E)+2, ...:
\* pairwise distinct ids, none of them in E.
AllocationOrder ==
    (mgrUp /\ origin = "recomputed") =>
        /\ \A k \in 1..Len(allocated) :
              allocated[k] = NthFree(existingAtStart, k, 0)
        /\ \A k \in 1..Len(allocated) : allocated[k] \notin existingAtStart
        /\ \A j, k \in 1..Len(allocated) : j # k => allocated[j] # allocated[k]

\* The directory {0, 2}: newPackfile has returned 1, 3 and 4
AllocationOrderWitness ==
    /\ mgrUp /\ origin = "recomputed"
    /\ existingAtStart = {0, 2}
    /\ allocated = <<1, 3, 4>>

\* C9: whenever a manager is constructed, also after an earlier manager
\* allocated packs and ended without teardown, the free list it starts with
\* ends with the id one greater than the highest existing pack id, and no
\* id of the list is the id of an existing pack file.
FreshTailAtConstruction ==
    (mgrUp /\ allocated = << >>) =>
        /\ Last(freeList) =
              IF packsOnDisk = {} THEN 0
              ELSE 1 + CHOOSE m \in packsOnDisk : \A id \in packsOnDisk : id <= m
        /\ \A i \in 1..Len(freeList) : freeList[i] \notin packsOnDisk

\* ------------------------------------------------------------------------
\* The layout of a pack file
\* ------------------------------------------------------------------------

\* The cells from position p on are groups: a count, then count header
\* entries (info, stored size, offset), then the payload bytes the stored
\* sizes announce, and nothing else
RECURSIVE GroupsWellFormed(_, _)
GroupsWellFormed(f, p) ==
    IF p > Len(f) THEN TRUE
    ELSE /\ f[p].k = "num"
         /\ p + 3 * f[p].v <= Len(f)
         /\ \A i \in 1..f[p].v :
               /\ f[p + 3 * i - 2].k = "info"
               /\ f[p + 3 * i - 1].k = "size"
               /\ f[p + 3 * i].k = "off"
         /\ LET q == p + 3 * f[p].v + 1
                total == SumSeq([i \in 1..f[p].v |-> f[p + 3 * i - 1].v])
            IN /\ q + total - 1 <= Len(f)
               /\ \A k \in q..(q + total - 1) : f[k].k = "byte"
               /\ GroupsWellFormed(f, q + total)

\* Sum over the groups of 4 + num * ENTRYSIZE + the stored sizes
RECURSIVE GroupBytes(_, _)
GroupBytes(f, p) ==
    IF p > Len(f) THEN 0
    ELSE LET total == SumSeq([i \in 1..f[p].v |-> f[p + 3 * i - 1].v])
         IN 4 + f[p].v * ENTRYSIZE + total
            + GroupBytes(f, p + 3 * f[p].v + 1 + total)

\* C11: after any sequence of completed commit and receive operations on a
\* pack, its file is a sequence of groups with the headers before the
\* payloads, every header offset is the file position of its payload,
\* fileSize is the size of the file, and the group sizes add up to it.
PackLayout ==
    pc = "idle" =>
        \A p \in PackIds :
            /\ GroupsWellFormed(file[p], 1)
            /\ LET objs == ReadGroups(file[p], 1, 0)
               IN \A i \in 1..Len(objs) : objs[i].off = objs[i].pos
            /\ fileSize[p] = FileBytes(file[p])
            /\ GroupBytes(file[p], 1) = FileBytes(file[p])

\* A pack holding a committed group of two objects and, after it, a
\* received group
PackLayoutWitness ==
    /\ pc = "idle" /\ cur.op = "receive" /\ cur.ret
    /\ cur.pf = 0 /\ cur.base > 0
    /\ file[0][1].v = 2
    /\ Len(ReadGroups(file[0], 1, 0)) >= 3
    /\ fileSize[0] >= cur.base + 4 + ENTRYSIZE


\* ------------------------------------------------------------------------
\* The Packfile objects of one manager

\* C17: whatever newPackfile and getPackfile calls were made, and whatever
\* the cache has dropped, the live Packfile objects of one pack id are one
\* object.
OnePackfilePerId ==
    \A a \in LivePackfiles : \A b \in LivePackfiles : a.id = b.id => a = b


\* ------------------------------------------------------------------------
\* Claims on the FUSE layer

\* The pairs (latest entry, new entry) at one path that turn a file into a
\* directory or a directory into a file
LayerConflict(old, new) ==
    \/ old.type \in {"NewFile", "DeletedFile"} /\ new.type = "NewDir"
    \/ old.type \in {"NewDir", "DeletedDir"} /\ new.type = "NewFile"

ReturnedTrue(t) ==
    /\ th[t].result.call = "mergeAndCommit"
    /\ th[t].result.status = "true"

\* C15: mergeAndCommit returns true exactly when the merge of the entry into
\* the diff asks for a new layer (a file entry met by NewDir, a directory
\* entry met by NewFile); when it returns true a fuseCommit has run to its
\* end (the head is the new commit, the head tree is its tree, the diff is
\* gone); when the merge asks for no new layer it returns false, nothing is
\* committed and the diff stays.
MergeAndCommitContract ==
    /\ [](\A t \in DOMAIN th :
            ReturnedTrue(t) =>
                /\ th[t].pc = "holding"
                /\ ~currTreeDiff.live
                /\ head.hash = th[t].result.value
                /\ head.hash = CommitHash(head.tree, nCommits)
                /\ headtree = FromBlob(head.tree))
    /\ [][\A t \in DOMAIN th : \A tde \in TdeInputs :
            (MergeAndCommit(t, tde) /\ currTreeDiff.live /\ currTempDir # NoTempDir) =>
                IF LayerConflict(GetLatestEntry(currTreeDiff, tde.filepath), tde)
                THEN th'[t].pc = "fc_apply" /\ th'[t].ret = "mergeAndCommit"
                ELSE /\ th'[t].result.call = "mergeAndCommit"
                     /\ th'[t].result.status = "false"
                     /\ currTreeDiff'.live
                     /\ UNCHANGED <<head, headtree, nCommits>>]_vars
    /\ [][\A t \in DOMAIN th :
            (th[t].ret = "mergeAndCommit" /\ th'[t].ret # "mergeAndCommit") =>
                /\ th'[t].result.call = "mergeAndCommit"
                /\ th'[t].result.status = "true"]_vars

MergeAndCommitWitness ==
    /\ ReturnedTrue(1)
    /\ nCommits = 1
    /\ LeafPath \in DOMAIN Flattened(headtree)
    /\ Flattened(headtree)[LeafPath].type = "Tree"

FuseCommitOrder ==
    /\ [](head.hash \in repoObjects /\ head.tree \in repoObjects)
    /\ [][\A t \in DOMAIN th :
            /\ FcCommitFromObjects(t) =>
                  /\ th[t].newTree \in repoObjects
                  /\ th[t].newTree
                        = TreeHash(RootOfFlat(ApplyTo(Flattened(headtree),
                                                      currTreeDiff.entries)))
                  /\ head' = head
            /\ FcResetHead(t) =>
                  /\ head'.hash = th[t].commitHash
                  /\ head'.hash = CommitHash(th[t].newTree, nCommits)
                  /\ head'.hash \in repoObjects
                  /\ currTreeDiff.live]_vars
    /\ [][(currTreeDiff.live /\ ~currTreeDiff'.live) =>
            \E t \in DOMAIN th :
                /\ th[t].commitHash # 0
                /\ head.hash = th[t].commitHash
                /\ headtree = FromBlob(th[t].newTree)]_vars

FuseCommitOrderWitness ==
    /\ th[1].pc = "fc_discard"
    /\ currTreeDiff.live
    /\ head.hash = th[1].commitHash
    /\ head.hash = CommitHash(th[1].newTree, 1)

\* computeNLink without nlinkCache: what it returns now; 0 - 1 stands for
\* its exception on a path that is no directory
LinkCountNow(path) ==
    IF path = RootPath THEN CountLinks(path, headtree, currTreeDiff)
    ELSE LET e == UncachedETE(path)
         IN IF ~e.found THEN 0
            ELSE IF e.ete.te.type # "Tree" THEN 0 - 1
            ELSE CountLinks(path,
                            IF e.ete.te.hash \in repoObjects
                            THEN FromBlob(e.ete.te.hash) ELSE EmptyMap,
                            currTreeDiff)

Quiet == \A t \in DOMAIN th : th[t].pc \in {"idle", "holding"}

EteCacheFresh ==
    \A path \in DOMAIN eteCache :
        UncachedETE(path) = [found |-> TRUE, ete |-> eteCache[path]]

TeCacheFresh ==
    \A path \in DOMAIN teCache :
        LET r == GetTreeEntry(EmptyMap, headtree, path)
        IN r.found /\ r.te = teCache[path]

NlinkCacheFresh ==
    \A path \in DOMAIN nlinkCache : nlinkCache[path] = LinkCountNow(path)

\* C20: between the calls no path-keyed cache is stale: each entry of
\* eteCache and teCache is what the resolution without caches gives on the
\* head tree and the diff as they are, and each entry of nlinkCache is the
\* count computeNLink would make now.
CachesCoherent ==
    Quiet => (EteCacheFresh /\ TeCacheFresh /\ NlinkCacheFresh)

\* The steps that read the head tree or the diff, and those that change them
ReadsTree(t) ==
    \/ GetETEResolve(t)
    \/ ComputeNLinkRoot(t)
    \/ ComputeNLinkCount(t)

ChangesTree(t) ==
    \/ \E tde \in TdeInputs : MergeAndCommit(t, tde)
    \/ FcApplyTo(t)
    \/ FcResetHead(t)
    \/ FcLoadHeadTree(t)
    \/ FcDiscard(t)

\* C18: with threads running the functions side by side, a step that reads
\* the head tree or the diff is made by a thread that holds lock_repo, a
\* step that changes them by a thread that holds it in write mode, and no
\* thread reads them while another thread holds the write lock.
LockRepoDiscipline ==
    [][\A t \in DOMAIN th :
        /\ ReadsTree(t) => (HoldsLock(t) /\ lock_repo.writer \in {NoThread, t})
        /\ ChangesTree(t) => HoldsWriteLock(t)
        /\ (StartWrite(t) \/ FuseCommit(t)) => lock_repo'.writer = t]_vars

\* ------------------------------------------------------------------------
\* Claims about the signed deltas of the metadata log
\* ------------------------------------------------------------------------

\* The deltas the step commits: those of the caller's transaction in
\* commit and in the scoped release, +1 for the hash of an addRef without a
\* transaction, none in any other step.
CommittedDeltas ==
    IF MdCommit \/ MdRelease THEN mdTr.counts
    ELSE IF \E hash \in MdHashes : MdAddRefNoTr(hash)
    THEN MapPut(EmptyMap, CHOOSE hash \in MdHashes : MdAddRefNoTr(hash), 1)
    ELSE EmptyMap

\* A stored count as the number it stands for: a word whose top bit is set
\* came from a sum that went below zero or beyond 2^31 - 1.
CountInRange(c) == c >= 0 /\ c <= I32Max

\* C21: every commit adds to each count the signed delta committed for it
\* (so that a count is the sum of the deltas committed for its hash), a hash
\* outside the transaction keeps its count, and no stored count is ever
\* negative or wrapped around.
SignedDeltaSum ==
    /\ [][(MdCommit \/ MdRelease \/ \E hash \in MdHashes : MdAddRefNoTr(hash)) =>
            \A h \in MdHashes :
                /\ MapGet(refcounts', h, 0)
                     = MapGet(refcounts, h, 0) + MapGet(CommittedDeltas, h, 0)
                /\ h \notin DOMAIN CommittedDeltas =>
                     MapGet(refcounts', h, 0) = MapGet(refcounts, h, 0)]_vars
    /\ [](\A h \in DOMAIN refcounts : CountInRange(refcounts[h]))

\* ------------------------------------------------------------------------
\* Claims about the scoped release of a pack transaction
\* ------------------------------------------------------------------------

\* File f ends with the group of the batch
EndsWithBatch(f, infos, payloads) ==
    LET n == 1 + 3 * Len(infos) + Len(PayloadCells(payloads))
        before == SubSeq(f, 1, Len(f) - n)
    IN /\ Len(f) >= n
       /\ SubSeq(f, Len(f) - n + 1, Len(f))
            = BatchGroup(FileBytes(before), infos, payloads)

TempDirKeptWhileOpen ==
    [][\A t \in DOMAIN th :
        /\ FcDiscard(t) =>
             /\ currTreeDiff' = NullDiff
             /\ eteCache' = EmptyMap /\ teCache' = EmptyMap
             /\ anyFilesOpen => currTempDir' = currTempDir
             /\ ~anyFilesOpen => currTempDir' = NoTempDir
             /\ anyFilesOpen' = anyFilesOpen
        /\ StartWrite(t) =>
             /\ currTempDir # NoTempDir => currTempDir' = currTempDir
             /\ currTempDir = NoTempDir => currTempDir' > nCommits
        /\ (FuseCommit(t) /\ ~currTreeDiff.live) =>
             /\ th'[t].pc = "holding"
             /\ UNCHANGED <<head, headtree, repoObjects, nCommits, currTreeDiff,
                            currTempDir, eteCache, teCache, nlinkCache>>]_vars

\* A commit was made while a file was open, and the startWrite after it
\* found the temp directory made before the commit
TempDirReused ==
    /\ nCommits = 1
    /\ anyFilesOpen
    /\ currTempDir = NewTempDir(0)
    /\ currTreeDiff.live
    /\ th[1].pc = "holding" /\ th[1].result.call = "startWrite"

\* ------------------------------------------------------------------------
\* Claims about the empty hash in the metadata log
\* ------------------------------------------------------------------------

\* C24: whatever hashes the callers hand to addRef, the assertion of commit
\* never fails, no pair of the log holds the empty hash, and no step writes
\* to the log (count field or pairs) for a transaction that holds the empty
\* hash.
NoEmptyHashCommitted ==
    /\ [](mdLast # "assertion failed")
    /\ [](\A i \in DOMAIN mdFile :
             mdFile[i].k = "hash" => mdFile[i].v # EmptyHash)
    /\ [][(mdTr.live /\ EmptyHash \in DOMAIN mdTr.counts) => mdFile' = mdFile]_vars

\* ------------------------------------------------------------------------
\* Claims about the batch of a pack transaction
\* ------------------------------------------------------------------------

\* The info is that of the object whose stored bytes the payload holds
Describes(info, payload) ==
    /\ info.hash \in PkHashes
    /\ info.payload_size = Len(PayloadOf(info.hash))
    /\ (IF info.compressed THEN Unzip(payload) ELSE payload) = PayloadOf(info.hash)

\* C25: the batch of a transaction built by addPayload, at any moment its
\* owner can commit it, and the batch purge has read from the pack, when
\* purge commits it, hold as many infos as payloads (the assertion of
\* Packfile::commit holds), and infos[i] describes payloads[i].
InfosMatchPayloads ==
    \A batch \in {b \in {tr, cur} :
                     \/ b = tr /\ tr.live
                     \/ b = cur /\ pc \in {"purgeSwap", "purgeCommit", "commitPayload"}} :
        /\ Len(batch.infos) = Len(batch.payloads)
        /\ \A i \in 1..Len(batch.infos) :
              Describes(batch.infos[i], batch.payloads[i])

\* purge is about to commit two objects it kept from a pack of two groups,
\* after it dropped the first object of the first group
PurgeBatchOfTwoGroups ==
    /\ pc = "purgeCommit"
    /\ Len(cur.before) = 3
    /\ cur.before[1].info.hash \in cur.hset
    /\ file[0] = << >> /\ written[0] = 0
    /\ Len(cur.infos) = 2
    /\ cur.infos[1].hash = cur.before[2].info.hash
    /\ cur.infos[2].hash = cur.before[3].info.hash
    /\ cur.infos[2].compressed

\* C26: the commit of a batch without objects, by the owner, by the scoped
\* release or by purge, appends one count field of 4 bytes with num = 0 to
\* the pack: fileSize grows by 4, numObjects and the index stay as they
\* are, and nothing more is written before the commit returns.
EmptyBatchAppendsHeader ==
    [][/\ ((PkCommit \/ PkRelease) /\ tr.infos = << >>) =>
            /\ file'[tr.pf] = file[tr.pf] \o <<Cell("num", 0)>>
            /\ FileBytes(file'[tr.pf]) = FileBytes(file[tr.pf]) + 4
            /\ fileSize'[tr.pf] = fileSize[tr.pf] + 4
            /\ numObjects' = numObjects /\ index' = index
       /\ (PkPurgeCommit /\ cur.infos = << >>) =>
            /\ file'[cur.pf] = <<Cell("num", 0)>>
            /\ FileBytes(file'[cur.pf]) = 4
            /\ fileSize'[cur.pf] = fileSize[cur.pf] + 4
            /\ numObjects' = numObjects /\ index' = index
       /\ (pc = "commitPayload" /\ cur.infos = << >>) =>
            /\ pc' = "idle"
            /\ file' = file /\ fileSize' = fileSize
            /\ numObjects' = numObjects /\ index' = index]_vars

\* purge has dropped every object of a pack that held two, and returned
\* true: the pack file is one group of no objects
PurgedPackHoldsEmptyGroup ==
    /\ pc = "idle" /\ cur.op = "purge" /\ cur.ret
    /\ Len(cur.before) = 2
    /\ file[cur.pf] = <<Cell("num", 0)>>

\* The state the claim says a failed mergeAndCommit leaves alone
MergeAndCommitFails(t) ==
    /\ th'[t].result.call = "mergeAndCommit"
    /\ th'[t].result.status \in
          {"throw: mergeAndCommit needs a locked repo",
           "throw: Call startWrite before calling mergeAndCommit"}
    /\ th'[t].pc = th[t].pc
    /\ UNCHANGED <<head, headtree, repoObjects, nCommits, currTreeDiff,
                   currTempDir, eteCache, teCache, nlinkCache, lock_repo>>

\* C27: mergeAndCommit throws and changes nothing when it is called without
\* a key, or with no current TreeDiff or no temp directory; after a
\* mergeAndCommit that returned true there is no TreeDiff, and only
\* startWrite makes one, so the next mergeAndCommit throws unless startWrite
\* was called before it.
MergeAndCommitFailsCleanly ==
    /\ [](\A t \in DOMAIN th :
            (th[t].result.call = "mergeAndCommit" /\ th[t].result.status = "true")
                => ~currTreeDiff.live)
    /\ [][\A t \in DOMAIN th :
            /\ \A tde \in TdeInputs :
                 /\ MergeAndCommitNoKey(t, tde) => MergeAndCommitFails(t)
                 /\ (MergeAndCommit(t, tde)
                        /\ (~currTreeDiff.live \/ currTempDir = NoTempDir))
                      => MergeAndCommitFails(t)
            /\ (~currTreeDiff.live /\ currTreeDiff'.live) => StartWrite(t)]_vars

\* After a mergeAndCommit that returned true while a file was open, the
\* temp directory is still there, and the next mergeAndCommit has thrown
MergeAndCommitAfterForcedCommit ==
    /\ nCommits = 1
    /\ anyFilesOpen /\ currTempDir # NoTempDir
    /\ ~currTreeDiff.live
    /\ th[1].pc = "holding"
    /\ th[1].result.status = "throw: Call startWrite before calling mergeAndCommit"
    /\ head.hash \in repoObjects /\ head.hash # CommitHash(head.tree, 0)

====
